---- MODULE Spec2Model ----
(***************************************************************************)
(* Behavior Scheduler (autonomous.ts) and Session Handle (mc-bot.ts) of    *)
(* the OpenClaw Minecraft plugin, as one state machine.                    *)
(*                                                                         *)
(* JavaScript objects are records; object identity is a reference into     *)
(* `heap`.  Interval timers armed with setInterval live in `liveTimers`    *)
(* until clearInterval removes them; the module-level Maps activeTimers    *)
(* and behaviorStates are functions whose value 0 means "no entry".        *)
(***************************************************************************)
EXTENDS Integers, FiniteSets, Sequences, TLC

\* ------------------------------------------------------------------------
\* Bounds
\* ------------------------------------------------------------------------

\* setInterval calls (and run-state records) in one run of SpecSched
MaxIds == 2
\* mineflayer.createBot calls in one run of SpecSched
SchedSessions == 1
\* mineflayer.createBot calls in one run of SpecSession
MaxSessions == 2
\* setInterval calls in one run of SpecSession
SessionTimers == 1
\* setInterval calls in one run of SpecTicks
TickTimers == 2
\* mineflayer.createBot calls in one run of SpecTicks
TickSessions == 1
\* ticks in flight at one time in SpecTicks
MaxInFlight == 2
\* mineflayer.createBot calls in one run of SpecFacade
FacadeSessions == 1
\* the largest count given to collectBlock in SpecFacade
MaxCount == 2
\* setInterval calls of startBehavior in one run of SpecFacade
FacadeTimers == 1
\* safety timeouts of finished attack loops that are still armed
MaxStale == 1
WaitInFlight == 1
PatrolTimers == 2

\* ------------------------------------------------------------------------
\* Values
\* ------------------------------------------------------------------------

Null == 0
NoTimer == 0
NoObject == [free |-> TRUE]
\* the `configOverrides` argument left out by the caller
NoOverrides == [undefined |-> TRUE]
EmptyObject == [k \in {} |-> 0]
NoSnapshot == [none |-> TRUE]
\* no Action Facade call is in flight
NoCall == [op |-> "none"]
\* the pathfinder's goal as the navigation waits see it: the wait that set
\* the goal in force, NoGoal when no pending wait did (no goal, a goal set
\* by a command that does not wait, or one whose wait is over)
NoGoal == [by |-> "none"]
\* the goal set by the Action Facade call that is waiting in waitForGoal
CallGoal == [by |-> "call"]
\* the goal set by a tick of behavior `name`
TickGoal(name) == [by |-> name]

\* ------------------------------------------------------------------------
\* Behavior Registry
\* ------------------------------------------------------------------------

behaviorDefs ==
  << [name |-> "auto_eat", interval |-> 2000,
      defaultConfig |-> [threshold |-> 14]],
     [name |-> "guard", interval |-> 500,
      defaultConfig |-> [radius |-> 16]],
     [name |-> "auto_collect", interval |-> 3000,
      defaultConfig |-> [block |-> "oak_log", radius |-> 32, pauseMs |-> 1000]],
     [name |-> "auto_follow", interval |-> 1000,
      defaultConfig |-> [player |-> "", distance |-> 3]],
     [name |-> "patrol", interval |-> 3000,
      defaultConfig |-> [waypoints |-> <<>>, currentIndex |-> 0, waitMs |-> 2000]] >>

RegisteredNames == {behaviorDefs[i].name : i \in DOMAIN behaviorDefs}

\* behaviorDefs.find((d) => d.name === name); 0 when there is none
FindDef(name) ==
  IF name \in RegisteredNames
    THEN CHOOSE i \in DOMAIN behaviorDefs :
           /\ behaviorDefs[i].name = name
           /\ \A j \in DOMAIN behaviorDefs : behaviorDefs[j].name = name => i <= j
    ELSE 0

\* names a caller may pass: the registry's and one that is not registered
UnknownName == "fly"
\* the strings that are keys of the two Maps in some run
MapKeys == RegisteredNames \cup {UnknownName}
InputNames == {"auto_eat", "guard", UnknownName}

\* override objects a caller may pass
InputOverrides ==
  { NoOverrides, EmptyObject, [radius |-> 8], [enabled |-> FALSE] }

\* Object.assign(target, source) and the object spread {...a, ...b}
Assign(target, source) ==
  [k \in DOMAIN target \cup DOMAIN source |->
     IF k \in DOMAIN source THEN source[k] ELSE target[k]]

\* ...configOverrides spreads nothing when the argument is undefined
Spread(ov) == IF ov = NoOverrides THEN EmptyObject ELSE ov

\* names.join(sep)
RECURSIVE Join(_, _)
Join(names, sep) ==
  IF names = <<>> THEN ""
  ELSE IF Len(names) = 1 THEN Head(names)
  ELSE Head(names) \o sep \o Join(Tail(names), sep)

\* the Error startBehavior throws for a name that has no definition
UnknownBehaviorError(name) ==
  "error: Unknown behavior: " \o name \o ". Available: "
    \o Join([i \in DOMAIN behaviorDefs |-> behaviorDefs[i].name], ", ")

VARIABLES
  activeTimers,    \* Map name -> timer
  behaviorStates,  \* Map name -> run-state record (a reference into heap)
  heap,            \* the run-state records
  liveTimers,      \* interval timers armed in the event loop
  schedBot,        \* autonomous.ts `_bot`
  bot,             \* mc-bot.ts `bot`
  currentStatus,   \* mc-bot.ts `currentStatus`
  sessions,        \* the mineflayer bots created by createBot
  lastOp,          \* the operation that produced this state, and its result
  ticks,           \* the tick invocations that are suspended at an await
  isEating,        \* autonomous.ts `isEating`
  call,            \* the Action Facade call that is suspended at an await
  world,           \* the block the world has at the target position
  staleSafety,     \* armed safety timeouts of attack loops that have resolved
  goal,            \* the pending navigation wait whose goal the pathfinder has
  exitTimer        \* the 1 s timer of the !disconnect chat command

vars == << activeTimers, behaviorStates, heap, liveTimers, schedBot, bot,
           currentStatus, sessions, lastOp, ticks, isEating, call, world,
           staleSafety, goal, exitTimer >>

schedVars == << activeTimers, behaviorStates, heap, liveTimers, schedBot >>
sessionVars == << bot, currentStatus, sessions >>
\* the asynchronous work in flight
facadeVars == << call, world, staleSafety, exitTimer >>
asyncVars == << ticks, isEating, call, world, staleSafety, goal >>
taskVars == << asyncVars, exitTimer >>

Max(a, b) == IF a >= b THEN a ELSE b
\* the references of run-state records and timers, and of sessions
Ids == 1..Max(Max(Max(MaxIds, SessionTimers), Max(TickTimers, FacadeTimers)),
             PatrolTimers)
Bots == 1..Max(Max(MaxSessions, SchedSessions), Max(TickSessions, FacadeSessions))

\* the record kept in lastOp: the operation, the behaviour name and the
\* overrides it was given, the string it returned (an error it threw as
\* "error: ...") and the snapshot it returned
Op(op, name, ov, result, snap) ==
  [op |-> op, name |-> name, ov |-> ov, result |-> result, snap |-> snap]

\* ------------------------------------------------------------------------
\* Behavior Scheduler: the functions of autonomous.ts over the module state
\*   s = [activeTimers, behaviorStates, heap, liveTimers, schedBot]
\* Each returns the state it leaves and the value it returns (or the error
\* it throws, as "error: ...").
\* ------------------------------------------------------------------------

Sched ==
  [activeTimers |-> activeTimers, behaviorStates |-> behaviorStates,
   heap |-> heap, liveTimers |-> liveTimers, schedBot |-> schedBot]

Ret(s, result) == [state |-> s, result |-> result]

\* a reference no record has been allocated at; 0 when the bound is used up
FreshId(s) ==
  IF \E r \in Ids : s.heap[r] = NoObject
    THEN CHOOSE r \in Ids : s.heap[r] = NoObject /\ \A q \in Ids : q < r => s.heap[q] # NoObject
    ELSE 0

\* initAutonomous that keeps a session reference it already has
initAutonomous_KeepsFirst(s, b) ==
  IF s.schedBot = Null THEN [s EXCEPT !.schedBot = b] ELSE s

initAutonomous(s, b) == [s EXCEPT !.schedBot = b]

\* startBehavior without the activeTimers.has(name) branch
startBehavior_NoRunningCheck(s, name, configOverrides) ==
  IF s.schedBot = Null THEN Ret(s, "error: Bot not connected.")
  ELSE IF FindDef(name) = 0 THEN Ret(s, UnknownBehaviorError(name))
  ELSE
    LET def == behaviorDefs[FindDef(name)]
        state == FreshId(s)
        timer == [id |-> state, name |-> name, state |-> state, interval |-> def.interval]
    IN IF state = 0 THEN Ret(s, "is already running.")
       ELSE Ret([s EXCEPT
              !.heap[state] = Assign(Assign([enabled |-> TRUE], def.defaultConfig),
                                     Spread(configOverrides)),
              !.behaviorStates[name] = state,
              !.liveTimers = @ \cup {timer},
              !.activeTimers[name] = timer.id],
           "started.")

\* startBehavior whose config update rebuilds the record from the defaults
startBehavior_RebuildOnUpdate(s, name, configOverrides) ==
  IF s.schedBot = Null THEN Ret(s, "error: Bot not connected.")
  ELSE IF FindDef(name) = 0 THEN Ret(s, UnknownBehaviorError(name))
  ELSE IF s.activeTimers[name] # NoTimer THEN
    IF configOverrides # NoOverrides
      THEN LET state == s.behaviorStates[name] IN
           Ret([s EXCEPT !.heap[state] =
                  Assign(Assign([enabled |-> TRUE], behaviorDefs[FindDef(name)].defaultConfig),
                         configOverrides)],
               "config updated.")
      ELSE Ret(s, "is already running.")
  ELSE
    LET def == behaviorDefs[FindDef(name)]
        state == FreshId(s)
        timer == [id |-> state, name |-> name, state |-> state, interval |-> def.interval]
    IN Ret([s EXCEPT
              !.heap[state] = Assign(Assign([enabled |-> TRUE], def.defaultConfig),
                                     Spread(configOverrides)),
              !.behaviorStates[name] = state,
              !.liveTimers = @ \cup {timer},
              !.activeTimers[name] = timer.id],
           "started.")

\* startBehavior whose config update is written into every run-state
startBehavior_PatchesAll(s, name, configOverrides) ==
  IF s.schedBot = Null THEN Ret(s, "error: Bot not connected.")
  ELSE IF FindDef(name) = 0 THEN Ret(s, UnknownBehaviorError(name))
  ELSE IF s.activeTimers[name] # NoTimer THEN
    IF configOverrides # NoOverrides
      THEN Ret([s EXCEPT !.heap = [r \in DOMAIN s.heap |->
                                     IF s.heap[r] = NoObject THEN NoObject
                                     ELSE Assign(s.heap[r], configOverrides)]],
               "config updated.")
      ELSE Ret(s, "is already running.")
  ELSE
    LET def == behaviorDefs[FindDef(name)]
        state == FreshId(s)
        timer == [id |-> state, name |-> name, state |-> state, interval |-> def.interval]
    IN Ret([s EXCEPT
              !.heap[state] = Assign(Assign([enabled |-> TRUE], def.defaultConfig),
                                     Spread(configOverrides)),
              !.behaviorStates[name] = state,
              !.liveTimers = @ \cup {timer},
              !.activeTimers[name] = timer.id],
           "started.")

\* startBehavior whose config update stores a patched copy of the record
\* in behaviorStates and leaves the record of the timer as it is
startBehavior_PatchesCopy(s, name, configOverrides) ==
  IF s.schedBot = Null THEN Ret(s, "error: Bot not connected.")
  ELSE IF FindDef(name) = 0 THEN Ret(s, UnknownBehaviorError(name))
  ELSE IF s.activeTimers[name] # NoTimer THEN
    IF configOverrides # NoOverrides
      THEN LET state == s.behaviorStates[name]
               copy == IF FreshId(s) # 0 THEN FreshId(s) ELSE state
           IN Ret([s EXCEPT !.heap[copy] = Assign(s.heap[state], configOverrides),
                            !.behaviorStates[name] = copy],
                  "config updated.")
      ELSE Ret(s, "is already running.")
  ELSE
    LET def == behaviorDefs[FindDef(name)]
        state == FreshId(s)
        timer == [id |-> state, name |-> name, state |-> state, interval |-> def.interval]
    IN Ret([s EXCEPT
              !.heap[state] = Assign(Assign([enabled |-> TRUE], def.defaultConfig),
                                     Spread(configOverrides)),
              !.behaviorStates[name] = state,
              !.liveTimers = @ \cup {timer},
              !.activeTimers[name] = timer.id],
           "started.")

\* startBehavior that looks the definition up before it looks for a session
startBehavior_LookupFirst(s, name, configOverrides) ==
  IF FindDef(name) = 0 THEN Ret(s, UnknownBehaviorError(name))
  ELSE IF s.schedBot = Null THEN Ret(s, "error: Bot not connected.")
  ELSE IF s.activeTimers[name] # NoTimer THEN
    IF configOverrides # NoOverrides
      THEN LET state == s.behaviorStates[name] IN
           Ret([s EXCEPT !.heap[state] = Assign(s.heap[state], configOverrides)],
               "config updated.")
      ELSE Ret(s, "is already running.")
  ELSE
    LET def == behaviorDefs[FindDef(name)]
        state == FreshId(s)
        timer == [id |-> state, name |-> name, state |-> state, interval |-> def.interval]
    IN Ret([s EXCEPT
              !.heap[state] = Assign(Assign([enabled |-> TRUE], def.defaultConfig),
                                     Spread(configOverrides)),
              !.behaviorStates[name] = state,
              !.liveTimers = @ \cup {timer},
              !.activeTimers[name] = timer.id],
           "started.")

startBehavior(s, name, configOverrides) ==
  IF s.schedBot = Null THEN Ret(s, "error: Bot not connected.")
  ELSE IF FindDef(name) = 0 THEN Ret(s, UnknownBehaviorError(name))
  ELSE IF s.activeTimers[name] # NoTimer THEN
    IF configOverrides # NoOverrides
      THEN LET state == s.behaviorStates[name] IN
           Ret([s EXCEPT !.heap[state] = Assign(s.heap[state], configOverrides)],
               "config updated.")
      ELSE Ret(s, "is already running.")
  ELSE
    LET def == behaviorDefs[FindDef(name)]
        state == FreshId(s)
        timer == [id |-> state, name |-> name, state |-> state, interval |-> def.interval]
    IN Ret([s EXCEPT
              !.heap[state] = Assign(Assign([enabled |-> TRUE], def.defaultConfig),
                                     Spread(configOverrides)),
              !.behaviorStates[name] = state,
              !.liveTimers = @ \cup {timer},
              !.activeTimers[name] = timer.id],
           "started.")

\* clearInterval(timer)
ClearInterval(timers, id) == {t \in timers : t.id # id}

\* stopBehavior that throws for a behaviour that is not running
stopBehavior_ThrowsWhenStopped(s, name) ==
  LET timer == s.activeTimers[name] IN
  IF timer = NoTimer THEN Ret(s, "error: not running")
  ELSE
    LET state == s.behaviorStates[name]
        s1 == [s EXCEPT !.liveTimers = ClearInterval(@, timer),
                        !.activeTimers[name] = NoTimer]
    IN Ret(IF state # Null THEN [s1 EXCEPT !.heap[state].enabled = FALSE] ELSE s1,
           "stopped.")

\* stopBehavior that deletes the Map entry and leaves the interval armed
stopBehavior_KeepsInterval(s, name) ==
  LET timer == s.activeTimers[name] IN
  IF timer = NoTimer THEN Ret(s, "is not running.")
  ELSE
    LET state == s.behaviorStates[name]
        s1 == [s EXCEPT !.activeTimers[name] = NoTimer]
    IN Ret(IF state # Null THEN [s1 EXCEPT !.heap[state].enabled = FALSE] ELSE s1,
           "stopped.")

\* stopBehavior that forgets the run-state of the behaviour it stops
stopBehavior_DropsState(s, name) ==
  LET timer == s.activeTimers[name] IN
  IF timer = NoTimer THEN Ret(s, "is not running.")
  ELSE
    Ret([s EXCEPT !.liveTimers = ClearInterval(@, timer),
                  !.activeTimers[name] = NoTimer,
                  !.behaviorStates[name] = Null],
        "stopped.")

stopBehavior(s, name) ==
  LET timer == s.activeTimers[name] IN
  IF timer = NoTimer THEN Ret(s, "is not running.")
  ELSE
    LET state == s.behaviorStates[name]
        s1 == [s EXCEPT !.liveTimers = ClearInterval(@, timer),
                        !.activeTimers[name] = NoTimer]
    IN Ret(IF state # Null THEN [s1 EXCEPT !.heap[state].enabled = FALSE] ELSE s1,
           "stopped.")

\* the keys of activeTimers in Map order: a key is inserted when its timer is
\* created, and timers are numbered in creation order
RECURSIVE KeysFrom(_, _)
KeysFrom(timers, k) ==
  IF k \notin Ids THEN <<>>
  ELSE (IF \E n \in MapKeys : timers[n] = k
          THEN << CHOOSE n \in MapKeys : timers[n] = k >>
          ELSE <<>>) \o KeysFrom(timers, k + 1)

ActiveKeys(s) == KeysFrom(s.activeTimers, 1)

RECURSIVE StopEach(_, _)
StopEach(s, names) ==
  IF names = <<>> THEN s
  ELSE StopEach(stopBehavior(s, Head(names)).state, Tail(names))

\* shutdownAutonomous that stops the first running behaviour only
shutdownAutonomous_FirstOnly(s) ==
  [StopEach(s, IF ActiveKeys(s) = <<>> THEN <<>> ELSE << Head(ActiveKeys(s)) >>)
     EXCEPT !.schedBot = Null]

shutdownAutonomous(s) ==
  [StopEach(s, ActiveKeys(s)) EXCEPT !.schedBot = Null]

\* stopAllBehaviors that leaves the behaviour started last running
stopAllBehaviors_SkipsLast(s) ==
  LET names == ActiveKeys(s) IN
  [state |-> StopEach(s, IF names = <<>> THEN <<>> ELSE SubSeq(names, 1, Len(names) - 1)),
   result |-> IF Len(names) > 0 THEN "Stopped: " \o Join(names, ", ")
                                ELSE "No behaviors were running.",
   names |-> names]

stopAllBehaviors(s) ==
  LET names == ActiveKeys(s) IN
  [state |-> StopEach(s, names),
   result |-> IF Len(names) > 0 THEN "Stopped: " \o Join(names, ", ")
                                ELSE "No behaviors were running.",
   names |-> names]

\* listBehaviors that shows the defaults for a behaviour that is not running
listBehaviors_DefaultsWhenStopped(s) ==
  [i \in DOMAIN behaviorDefs |->
     LET def == behaviorDefs[i] IN
     [name |-> def.name,
      running |-> s.activeTimers[def.name] # NoTimer,
      config |-> IF s.activeTimers[def.name] # NoTimer
                   THEN s.heap[s.behaviorStates[def.name]]
                   ELSE def.defaultConfig]]

listBehaviors(s) ==
  [i \in DOMAIN behaviorDefs |->
     LET def == behaviorDefs[i] IN
     [name |-> def.name,
      running |-> s.activeTimers[def.name] # NoTimer,
      config |-> IF s.behaviorStates[def.name] # Null
                   THEN s.heap[s.behaviorStates[def.name]]
                   ELSE def.defaultConfig]]

\* an interval callback whose catch block disables the behaviour that failed
intervalCallback_DisableOnFailure(s, t, tick) ==
  IF s.schedBot = Null \/ ~s.heap[t.state].enabled THEN Ret(s, "skipped")
  ELSE IF tick = "throws"
    THEN Ret([s EXCEPT !.heap[t.state].enabled = FALSE], "caught")
  ELSE Ret(s, "returned")

\* an interval callback that does not look at the enabled flag
intervalCallback_IgnoresEnabled(s, t, tick) ==
  IF s.schedBot = Null THEN Ret(s, "skipped")
  ELSE IF tick = "throws" THEN Ret(s, "caught")
  ELSE Ret(s, "returned")

\* the interval callback armed by startBehavior, for one firing of timer t;
\* tick is what def.tick does this time: "returns" or "throws"
intervalCallback(s, t, tick) ==
  IF s.schedBot = Null \/ ~s.heap[t.state].enabled THEN Ret(s, "skipped")
  ELSE IF tick = "throws" THEN Ret(s, "caught")
  ELSE Ret(s, "returned")

\* ------------------------------------------------------------------------
\* Session Handle: mc-bot.ts
\* ------------------------------------------------------------------------

\* avatar telemetry the world session may hold when it is read; health and
\* the coordinates are in hundredths, and position <<>> is an absent entity
Avatars ==
  { [health |-> 2000, food |-> 20, position |-> <<1025, 6400, -1025>>,
     dimension |-> "overworld", experience |-> 3, gameMode |-> "survival"],
    [health |-> 746, food |-> 6, position |-> <<>>,
     dimension |-> "the_nether", experience |-> 0, gameMode |-> "creative"] }

\* Math.round(x * 10) / 10, x in hundredths, the result in tenths
RoundTenth(x) == (x + 5) \div 10

\* snapshot() reporting currentStatus when no session is held
snapshot_LiveStatus(avatar) ==
  IF bot = Null THEN
    [status |-> currentStatus, health |-> 0, food |-> 0, position |-> <<>>,
     dimension |-> "null", experience |-> 0, gameMode |-> "unknown"]
  ELSE
    [status |-> currentStatus,
     health |-> RoundTenth(avatar.health),
     food |-> avatar.food,
     position |-> [i \in DOMAIN avatar.position |-> RoundTenth(avatar.position[i])],
     dimension |-> avatar.dimension,
     experience |-> avatar.experience,
     gameMode |-> avatar.gameMode]

\* snapshot(), avatar being what the held session reports at this moment
snapshot(avatar) ==
  IF bot = Null THEN
    [status |-> "disconnected", health |-> 0, food |-> 0, position |-> <<>>,
     dimension |-> "null", experience |-> 0, gameMode |-> "unknown"]
  ELSE
    [status |-> currentStatus,
     health |-> RoundTenth(avatar.health),
     food |-> avatar.food,
     position |-> [i \in DOMAIN avatar.position |-> RoundTenth(avatar.position[i])],
     dimension |-> avatar.dimension,
     experience |-> avatar.experience,
     gameMode |-> avatar.gameMode]

\* resolve() and reject() of a connect promise settle it once
Settle(promise, how) == IF promise = "pending" THEN how ELSE promise

SetSched(s) ==
  /\ activeTimers' = s.activeTimers
  /\ behaviorStates' = s.behaviorStates
  /\ heap' = s.heap
  /\ liveTimers' = s.liveTimers
  /\ schedBot' = s.schedBot

NoSession == [phase |-> "none", promise |-> "none"]

Init ==
  /\ activeTimers = [n \in MapKeys |-> NoTimer]
  /\ behaviorStates = [n \in MapKeys |-> Null]
  /\ heap = [r \in Ids |-> NoObject]
  /\ liveTimers = {}
  /\ schedBot = Null
  /\ bot = Null
  /\ currentStatus = "disconnected"
  /\ sessions = [b \in Bots |-> NoSession]
  /\ lastOp = Op("init", "", NoOverrides, "", NoSnapshot)
  /\ ticks = {}
  /\ isEating = FALSE
  /\ call = NoCall
  /\ world = "stone"
  /\ staleSafety = 0
  /\ goal = NoGoal
  /\ exitTimer = "none"

\* connect(cfg) while a session is held: resolves with the snapshot
ConnectHeld ==
  /\ bot # Null
  /\ \E a \in Avatars : lastOp' = Op("connect", "", NoOverrides, "resolved", snapshot(a))
  /\ UNCHANGED << schedVars, sessionVars >>
  /\ UNCHANGED taskVars

\* connect(cfg) otherwise: createBot and the four listeners; the run makes
\* at most `limit` sessions
ConnectCreate(limit) ==
  /\ bot = Null
  /\ \E b \in Bots :
       /\ b <= limit
       /\ sessions[b].phase = "none"
       /\ \A c \in Bots : c < b => sessions[c].phase # "none"
       /\ currentStatus' = "connecting"
       /\ sessions' = [sessions EXCEPT ![b] = [phase |-> "handshake",
                                               promise |-> "pending"]]
  /\ lastOp' = Op("connect", "", NoOverrides, "pending", NoSnapshot)
  /\ UNCHANGED << schedVars, bot >>
  /\ UNCHANGED taskVars

\* b.once("spawn", ...)
OnSpawn(b) ==
  /\ sessions[b].phase = "handshake"
  /\ sessions' = [sessions EXCEPT ![b] = [phase |-> "spawned",
                                          promise |-> Settle(@.promise, "resolved")]]
  /\ bot' = b
  /\ currentStatus' = "connected"
  /\ SetSched(initAutonomous(Sched, b))
  /\ lastOp' = Op("spawn", "", NoOverrides, "", NoSnapshot)
  /\ UNCHANGED taskVars

\* an error handler that resets the status whatever it is
OnError_AlwaysResets(b) ==
  /\ sessions[b].phase \in {"handshake", "spawned", "quit"}
  /\ currentStatus' = "disconnected"
  /\ sessions' = [sessions EXCEPT ![b].promise = Settle(@, "rejected")]
  /\ lastOp' = Op("error", "", NoOverrides, "", NoSnapshot)
  /\ UNCHANGED << schedVars, bot >>
  /\ UNCHANGED taskVars

\* b.on("error", ...)
OnError(b) ==
  /\ sessions[b].phase \in {"handshake", "spawned", "quit"}
  /\ IF currentStatus = "connecting"
       THEN /\ currentStatus' = "disconnected"
            /\ sessions' = [sessions EXCEPT ![b].promise = Settle(@, "rejected")]
       ELSE UNCHANGED << currentStatus, sessions >>
  /\ lastOp' = Op("error", "", NoOverrides, "", NoSnapshot)
  /\ UNCHANGED << schedVars, bot >>
  /\ UNCHANGED taskVars

\* an end handler that leaves the scheduler as it is
OnEnd_NoShutdown(b) ==
  /\ sessions[b].phase \in {"handshake", "spawned", "quit"}
  /\ sessions' = [sessions EXCEPT ![b].phase = "ended"]
  /\ bot' = Null
  /\ currentStatus' = "disconnected"
  /\ lastOp' = Op("end", "", NoOverrides, "", NoSnapshot)
  /\ UNCHANGED schedVars
  /\ UNCHANGED taskVars

\* b.on("end", ...)
OnEnd(b) ==
  /\ sessions[b].phase \in {"handshake", "spawned", "quit"}
  /\ sessions' = [sessions EXCEPT ![b].phase = "ended"]
  /\ SetSched(shutdownAutonomous(Sched))
  /\ bot' = Null
  /\ currentStatus' = "disconnected"
  /\ lastOp' = Op("end", "", NoOverrides, "", NoSnapshot)
  /\ UNCHANGED taskVars

\* b.on("kicked", ...)
OnKicked(b) ==
  /\ sessions[b].phase \in {"handshake", "spawned"}
  /\ lastOp' = Op("kicked", "", NoOverrides, "", NoSnapshot)
  /\ UNCHANGED << schedVars, sessionVars >>
  /\ UNCHANGED taskVars

\* disconnect() that resets the status before it looks for a session
disconnect_AlwaysReset ==
  IF bot = Null THEN
    /\ currentStatus' = "disconnected"
    /\ lastOp' = Op("disconnect", "", NoOverrides, "Already disconnected.", NoSnapshot)
    /\ UNCHANGED << schedVars, bot, sessions, taskVars >>
  ELSE
    /\ SetSched(shutdownAutonomous(Sched))
    /\ sessions' = [sessions EXCEPT ![bot].phase = "quit"]
    /\ bot' = Null
    /\ currentStatus' = "disconnected"
    /\ lastOp' = Op("disconnect", "", NoOverrides, "Disconnected.", NoSnapshot)
    /\ UNCHANGED taskVars

\* what bot.quit() finds of the scheduler when it closes the connection
AtQuit(s) == [timers |-> s.liveTimers, schedBot |-> s.schedBot]

\* a disconnect() that closes the connection before it shuts the scheduler
\* down
disconnectFrom_QuitFirst(caller) ==
  IF bot = Null THEN
    /\ lastOp' = Op(caller, "", NoOverrides, "Already disconnected.", NoSnapshot)
    /\ UNCHANGED << schedVars, sessionVars, asyncVars >>
  ELSE
    /\ SetSched(shutdownAutonomous(Sched))
    /\ sessions' = [sessions EXCEPT ![bot].phase = "quit"]
    /\ bot' = Null
    /\ currentStatus' = "disconnected"
    /\ lastOp' = Op(caller, "", AtQuit(Sched), "Disconnected.", NoSnapshot)
    /\ UNCHANGED asyncVars

\* the body of disconnect(), run for `caller`: shutdownAutonomous(), then
\* bot.quit(), then the reference and the status
disconnectFrom(caller) ==
  IF bot = Null THEN
    /\ lastOp' = Op(caller, "", NoOverrides, "Already disconnected.", NoSnapshot)
    /\ UNCHANGED << schedVars, sessionVars, asyncVars >>
  ELSE
    LET afterShutdown == shutdownAutonomous(Sched) IN
    /\ SetSched(afterShutdown)
    /\ sessions' = [sessions EXCEPT ![bot].phase = "quit"]
    /\ bot' = Null
    /\ currentStatus' = "disconnected"
    /\ lastOp' = Op(caller, "", AtQuit(afterShutdown), "Disconnected.", NoSnapshot)
    /\ UNCHANGED asyncVars

\* minecraft_disconnect: disconnect()
disconnect == disconnectFrom("disconnect") /\ UNCHANGED exitTimer

\* the stop hook of the minecraft-lifecycle service: disconnect(), then a
\* log line
ServiceStop == disconnectFrom("service stop") /\ UNCHANGED exitTimer

\* minecraft_status: snapshot()
Snapshot ==
  /\ \E a \in Avatars : lastOp' = Op("snapshot", "", NoOverrides, "", snapshot(a))
  /\ UNCHANGED << schedVars, sessionVars >>
  /\ UNCHANGED taskVars

\* ------------------------------------------------------------------------
\* Scheduler operations as steps
\* ------------------------------------------------------------------------

\* the run arms at most `limit` timers
StartBehavior(name, ov, limit) ==
  /\ (schedBot # Null /\ FindDef(name) # 0 /\ activeTimers[name] = NoTimer)
       => (FreshId(Sched) # 0 /\ FreshId(Sched) <= limit)
  /\ LET r == startBehavior(Sched, name, ov) IN
       /\ SetSched(r.state)
       /\ lastOp' = Op("start", name, ov, r.result, NoSnapshot)
  /\ UNCHANGED sessionVars
  /\ UNCHANGED taskVars

StopBehavior(name) ==
  /\ LET r == stopBehavior(Sched, name) IN
       /\ SetSched(r.state)
       /\ lastOp' = Op("stop", name, NoOverrides, r.result, NoSnapshot)
  /\ UNCHANGED sessionVars
  /\ UNCHANGED taskVars

StopAllBehaviors ==
  /\ LET r == stopAllBehaviors(Sched) IN
       /\ SetSched(r.state)
       /\ lastOp' = Op("stopAll", "", NoOverrides, r.result, NoSnapshot)
  /\ UNCHANGED sessionVars
  /\ UNCHANGED taskVars

ListBehaviors ==
  /\ lastOp' = Op("list", "", NoOverrides, "", NoSnapshot)
  /\ UNCHANGED << schedVars, sessionVars >>
  /\ UNCHANGED taskVars

\* one firing of a live interval timer
TimerFire(t) ==
  /\ t \in liveTimers
  /\ \E tick \in {"returns", "throws"} :
       LET r == intervalCallback(Sched, t, tick) IN
         /\ SetSched(r.state)
         /\ lastOp' = Op("fire", t.name, NoOverrides, r.result, NoSnapshot)
         /\ \E setsGoal \in BOOLEAN :
              goal' = IF setsGoal /\ r.result # "skipped" THEN NoGoal ELSE goal
  /\ UNCHANGED sessionVars
  /\ UNCHANGED << ticks, isEating, facadeVars >>

\* ------------------------------------------------------------------------
\* Ticks that suspend: auto_eat and patrol
\* ------------------------------------------------------------------------

\* the waypoints a patrol is given
Waypoints == << [x |-> 0, y |-> 64, z |-> 0], [x |-> 20, y |-> 64, z |-> 0] >>

\* the starts made in SpecTicks: a name and its overrides
TickStarts ==
  { << "auto_eat", NoOverrides >>,
    << "patrol", NoOverrides >>,
    << "patrol", [waypoints |-> Waypoints] >> }

\* bot.food as a tick may find it
FoodLevels == {6, 20}

\* the lowest free slot for a tick in flight, 0 when all `limit` are taken
FreshTick(limit) ==
  IF \E k \in 1..limit : \A x \in ticks : x.id # k
    THEN CHOOSE k \in 1..limit :
           /\ \A x \in ticks : x.id # k
           /\ \A q \in 1..limit : q < k => \E x \in ticks : x.id = q
    ELSE 0

\* an auto_eat tick without the isEating test
autoEatTick_NoGuard(config, eating, food, hasFood) ==
  IF food >= config.threshold
    THEN [pc |-> "returned", eating |-> eating, config |-> config]
  ELSE IF ~hasFood THEN [pc |-> "returned", eating |-> eating, config |-> config]
  ELSE [pc |-> "equipping", eating |-> TRUE, config |-> config]

\* auto_eat tick up to its first await: `eating` is isEating, `food` is
\* bot.food and `hasFood` says whether the inventory holds a food item.
\* pc is where the tick is left, eating the new isEating.
autoEatTick(config, eating, food, hasFood) ==
  IF eating THEN [pc |-> "returned", eating |-> eating, config |-> config]
  ELSE IF food >= config.threshold
    THEN [pc |-> "returned", eating |-> eating, config |-> config]
  ELSE IF ~hasFood THEN [pc |-> "returned", eating |-> eating, config |-> config]
  ELSE [pc |-> "equipping", eating |-> TRUE, config |-> config]

\* auto_collect tick up to its first await: `known` says whether mcData has
\* the block type, `found` whether findBlocks returned a position, `solid`
\* whether blockAt gives a block other than air there, and `far` whether
\* the position is more than 5 away
autoCollectTick(config, known, found, solid, far) ==
  IF config.block = "" \/ ~known \/ ~found \/ ~solid
    THEN [pc |-> "returned", config |-> config]
  ELSE IF far THEN [pc |-> "navigating", config |-> config]
  ELSE [pc |-> "digging", config |-> config]

\* a patrol tick that steps the index without wrapping it
patrolTick_NoWrap(config, near) ==
  LET waypoints == config.waypoints IN
  IF Len(waypoints) = 0 THEN [pc |-> "returned", config |-> config, wp |-> 0]
  ELSE
    LET idx == config.currentIndex
        wp == (idx % Len(waypoints)) + 1
    IN
    IF near
      THEN [pc |-> "returned", wp |-> wp,
            config |-> [config EXCEPT !.currentIndex = idx + 1]]
      ELSE [pc |-> "navigating", config |-> config, wp |-> wp]

\* patrol tick up to its await: `near` says whether the bot is within 3 of
\* the current waypoint. wp is the place in the list (counted from 1) of
\* the waypoint the tick selects, waypoints[idx % waypoints.length]; 0
\* when it selects none.
patrolTick(config, near) ==
  LET waypoints == config.waypoints IN
  IF Len(waypoints) = 0 THEN [pc |-> "returned", config |-> config, wp |-> 0]
  ELSE
    LET idx == config.currentIndex
        wp == (idx % Len(waypoints)) + 1
    IN
    IF near
      THEN [pc |-> "returned", wp |-> wp,
            config |-> [config EXCEPT !.currentIndex = (idx + 1) % Len(waypoints)]]
      ELSE [pc |-> "navigating", config |-> config, wp |-> wp]

\* the step a firing of timer t makes when the tick ran up to `r.pc`
FireWith(t, r, eating, limit) ==
  /\ heap' = [heap EXCEPT ![t.state] = r.config]
  /\ isEating' = eating
  /\ goal' = IF r.pc = "navigating" THEN TickGoal(t.name) ELSE goal
  /\ IF r.pc = "returned"
       THEN /\ ticks' = ticks
            /\ lastOp' = Op("fire", t.name, NoOverrides, "returned", NoSnapshot)
       ELSE /\ FreshTick(limit) # 0
            /\ ticks' = ticks \cup {[id |-> FreshTick(limit), name |-> t.name, pc |-> r.pc]}
            /\ lastOp' = Op("fire", t.name, NoOverrides, "suspended", NoSnapshot)

\* a callback that lets a firing pass while a tick of its behavior is
\* still in flight
TimerFireAsync_WaitsForTick(t, limit) ==
  /\ t \in liveTimers
  /\ IF \/ intervalCallback(Sched, t, "returns").result = "skipped"
        \/ \E k \in ticks : k.name = t.name
       THEN /\ lastOp' = Op("fire", t.name, NoOverrides, "skipped", NoSnapshot)
            /\ UNCHANGED << heap, taskVars >>
       ELSE IF t.name = "auto_eat"
         THEN \E food \in FoodLevels, hasFood \in BOOLEAN :
                LET r == autoEatTick(heap[t.state], isEating, food, hasFood)
                IN FireWith(t, r, r.eating, limit)
         ELSE IF t.name = "auto_collect"
         THEN \E known \in BOOLEAN, found \in BOOLEAN, solid \in BOOLEAN,
                 far \in BOOLEAN :
                FireWith(t, autoCollectTick(heap[t.state], known, found, solid, far),
                         isEating, limit)
         ELSE \E near \in BOOLEAN :
                FireWith(t, patrolTick(heap[t.state], near), isEating, limit)
  /\ UNCHANGED << activeTimers, behaviorStates, liveTimers, schedBot, sessionVars,
                  facadeVars >>

\* one firing of a live interval timer whose tick may suspend; at most
\* `limit` ticks are in flight
TimerFireAsync(t, limit) ==
  /\ t \in liveTimers
  /\ IF intervalCallback(Sched, t, "returns").result = "skipped"
       THEN /\ lastOp' = Op("fire", t.name, NoOverrides, "skipped", NoSnapshot)
            /\ UNCHANGED << heap, taskVars >>
       ELSE IF t.name = "auto_eat"
         THEN \E food \in FoodLevels, hasFood \in BOOLEAN :
                LET r == autoEatTick(heap[t.state], isEating, food, hasFood)
                IN FireWith(t, r, r.eating, limit)
         ELSE IF t.name = "auto_collect"
         THEN \E known \in BOOLEAN, found \in BOOLEAN, solid \in BOOLEAN,
                 far \in BOOLEAN :
                FireWith(t, autoCollectTick(heap[t.state], known, found, solid, far),
                         isEating, limit)
         ELSE \E near \in BOOLEAN :
                FireWith(t, patrolTick(heap[t.state], near), isEating, limit)
  /\ UNCHANGED << activeTimers, behaviorStates, liveTimers, schedBot, sessionVars,
                  facadeVars >>

\* what ends the await a tick is suspended at: bot.equip or bot.dig
\* settles; the health event or the 4 s timer; goal_reached, path_stop or
\* the timer of the wait (15 s in auto_collect, 30 s in patrol)
WakeConditions(pc) ==
  IF pc \in {"equipping", "digging"} THEN {"resolved", "rejected"}
  ELSE IF pc = "consuming" THEN {"health", "timeout"}
  ELSE {"goal_reached", "path_stop", "timeout"}

\* where a tick at k.pc goes on to when `how` ends its await: the next
\* await, or "returned". auto_collect looks at the block again after its
\* wait and digs it when it is still there.
NextPc(k, how) ==
  IF k.pc = "equipping" /\ how = "resolved" THEN {"consuming"}
  ELSE IF k.name = "auto_collect" /\ k.pc = "navigating" THEN {"digging", "returned"}
  ELSE {"returned"}

\* a tick in flight goes on from its await by one of its wake conditions.
\* An event of the pathfinder ends the goal in force; the timer of a patrol
\* wait leaves it, and the goal is then the goal of no pending wait.
\* waits that only their events end: no timer is armed
Wake_EventsOnly(k, how) ==
  /\ k \in ticks
  /\ how \in WakeConditions(k.pc) \ {"timeout"}
  /\ \E pc \in NextPc(k, how) :
       IF pc # "returned"
         THEN /\ ticks' = (ticks \ {k}) \cup {[k EXCEPT !.pc = pc]}
              /\ isEating' = isEating
              /\ lastOp' = Op("resume", k.name, NoOverrides, "suspended", NoSnapshot)
         ELSE /\ ticks' = ticks \ {k}
              /\ isEating' = IF k.name = "auto_eat" THEN FALSE ELSE isEating
              /\ lastOp' = Op("resume", k.name, NoOverrides, "returned", NoSnapshot)
  /\ goal' = IF k.pc = "navigating" THEN NoGoal ELSE goal
  /\ UNCHANGED << schedVars, sessionVars, facadeVars >>

\* an auto_eat tick whose isEating = false is not in a finally block: a
\* rejected equip leaves the flag set
Wake_NoFinally(k, how) ==
  /\ k \in ticks
  /\ how \in WakeConditions(k.pc)
  /\ \E pc \in NextPc(k, how) :
       IF pc # "returned"
         THEN /\ ticks' = (ticks \ {k}) \cup {[k EXCEPT !.pc = pc]}
              /\ isEating' = isEating
              /\ lastOp' = Op("resume", k.name, NoOverrides, "suspended", NoSnapshot)
         ELSE /\ ticks' = ticks \ {k}
              /\ isEating' = IF k.name = "auto_eat" /\ how # "rejected" THEN FALSE
                             ELSE isEating
              /\ lastOp' = Op("resume", k.name, NoOverrides, "returned", NoSnapshot)
  /\ goal' = IF k.pc = "navigating" THEN NoGoal ELSE goal
  /\ UNCHANGED << schedVars, sessionVars, facadeVars >>

Wake(k, how) ==
  /\ k \in ticks
  /\ how \in WakeConditions(k.pc)
  /\ \E pc \in NextPc(k, how) :
       IF pc # "returned"
         THEN /\ ticks' = (ticks \ {k}) \cup {[k EXCEPT !.pc = pc]}
              /\ isEating' = isEating
              /\ lastOp' = Op("resume", k.name, NoOverrides, "suspended", NoSnapshot)
         ELSE /\ ticks' = ticks \ {k}
              /\ isEating' = IF k.name = "auto_eat" THEN FALSE ELSE isEating
              /\ lastOp' = Op("resume", k.name, NoOverrides, "returned", NoSnapshot)
  /\ goal' = IF k.pc # "navigating" THEN goal
             ELSE IF how # "timeout" THEN NoGoal
             ELSE IF /\ goal = TickGoal(k.name)
                     /\ \A x \in ticks' : ~(x.name = k.name /\ x.pc = "navigating")
               THEN NoGoal
             ELSE goal
  /\ UNCHANGED << schedVars, sessionVars, facadeVars >>

\* a tick in flight goes on from its await
TickResume(k) == \E how \in WakeConditions(k.pc) : Wake(k, how)

\* Behaviors whose ticks suspend, started and stopped over one connection
\* while their timers fire.
NextTicks ==
  \/ ConnectCreate(TickSessions)
  \/ \E b \in Bots : OnSpawn(b)
  \/ \E st \in TickStarts : StartBehavior(st[1], st[2], TickTimers)
  \/ \E name \in {"auto_eat", "patrol"} : StopBehavior(name)
  \/ \E t \in liveTimers : TimerFireAsync(t, MaxInFlight)
  \/ \E k \in ticks : TickResume(k)

SpecTicks == Init /\ [][NextTicks]_vars

\* ------------------------------------------------------------------------
\* Action Facade: the actions of mc-bot.ts
\* ------------------------------------------------------------------------

NotConnectedError == "error: Minecraft bot is not connected. Use minecraft_connect first."
PathTimeoutError == "error: Pathfinding timed out."

\* getBotOrThrow() that lets a caller through while a connect is under way
getBotOrThrow_WhileConnecting ==
  IF currentStatus = "disconnected" THEN [ok |-> FALSE, error |-> NotConnectedError]
  ELSE [ok |-> TRUE, b |-> bot]

getBotOrThrow ==
  IF bot = Null THEN [ok |-> FALSE, error |-> NotConnectedError]
  ELSE [ok |-> TRUE, b |-> bot]

\* the actions that return without an await the model follows, and what
\* they return with a session ("error: ..." is what they throw)
SimpleResults ==
  [chat |-> {"Sent"},
   followPlayer |-> {"Following", "error: Cannot see player"},
   stopActions |-> {"Stopped all actions."},
   listInventory |-> {"Inventory is empty.", "items"},
   equipItem |-> {"Equipped", "error: Not in inventory"},
   tossItem |-> {"Tossed", "error: Not in inventory"},
   listPlayers |-> {"players"},
   getTime |-> {"time"},
   getWeather |-> {"Rainy", "Clear"}]

SimpleOps == DOMAIN SimpleResults

FacadeOps ==
  SimpleOps \cup {"moveTo", "digAt", "placeBlock", "collectBlock", "craftItem",
                  "attackNearest", "attackEntity"}

\* what b.blockAt(target) returns: the name of a block, or "none" for null
Blocks == {"stone", "dirt", "air", "none"}

\* setInterval(..., 400) and setTimeout(..., 60000) of attackUntilDead
AttackCooldown == 400
SafetyTimeout == 60000

\* a call suspended in `op` at `pc`
Pending(op, pc) ==
  [op |-> op, pc |-> pc, block |-> "none", found |-> 0, i |-> 0, collected |-> 0,
   count |-> 0, checks |-> 0, valid |-> TRUE, commands |-> 0]

\* the call has returned `result` (or thrown it) on `event`
Finish(op, event, result) ==
  /\ call' = NoCall
  /\ lastOp' = Op("facade", op, [event |-> event], result, NoSnapshot)

\* the call is left suspended as `c` after `event`
Suspend(event, c) ==
  /\ call' = c
  /\ lastOp' = Op("facade", c.op, [event |-> event], "pending", NoSnapshot)

\* the for loop of collectBlock from the position after c.i: the positions
\* up to j - 1 are skipped (no block there any more), position j is gone to
\* (`inRange` is navigateTo finding the bot in range) or, with no position
\* left, the call returns
CollectFrom(c, event) ==
  \E j \in (c.i + 1)..(c.found + 1), inRange \in BOOLEAN :
    IF j = c.found + 1
      THEN Finish("collectBlock", event,
                  "Collected " \o ToString(c.collected) \o "/" \o ToString(c.found)
                    \o " oak_log.")
      ELSE Suspend(event, [c EXCEPT !.i = j,
                                    !.pc = IF inRange THEN "dig" ELSE "waitForGoal"])

\* an action called: the call up to its first await
FacadeCall(op) ==
  /\ call = NoCall
  /\ IF ~getBotOrThrow.ok THEN Finish(op, "call", getBotOrThrow.error)
     ELSE IF op \in SimpleOps THEN
       \E r \in SimpleResults[op] : Finish(op, "call", r)
     ELSE IF op = "moveTo" THEN Suspend("call", Pending(op, "waitForGoal"))
     ELSE IF op = "digAt" THEN
       IF world \in {"air", "none"}
         THEN Finish(op, "call", "error: No solid block at that position.")
         ELSE \E inRange \in BOOLEAN :
                Suspend("call", [Pending(op, IF inRange THEN "dig" ELSE "waitForGoal")
                                   EXCEPT !.block = world])
     ELSE IF op = "placeBlock" THEN
       IF world = "none"
         THEN Finish(op, "call", "error: No reference block at that position.")
         ELSE \E inRange \in BOOLEAN :
                Suspend("call", [Pending(op, IF inRange THEN "place" ELSE "waitForGoal")
                                   EXCEPT !.block = world])
     ELSE IF op = "collectBlock" THEN
       \E known \in BOOLEAN, count \in 1..MaxCount :
         \E found \in 0..count :
           IF ~known THEN Finish(op, "call", "error: Unknown block type")
           ELSE IF found = 0
             THEN Finish(op, "call", "error: No oak_log found within 64 blocks.")
           ELSE CollectFrom([Pending(op, "loop") EXCEPT !.found = found,
                                                        !.count = count], "call")
     ELSE IF op = "craftItem" THEN
       \E known \in BOOLEAN, recipe \in {"inventory", "table", "none"},
          table \in BOOLEAN, inRange \in BOOLEAN :
         IF ~known THEN Finish(op, "call", "error: Unknown item")
         ELSE IF recipe = "inventory" THEN Suspend("call", Pending(op, "craft"))
         ELSE IF ~table THEN Finish(op, "call", "error: No crafting table nearby")
         ELSE IF ~inRange THEN Suspend("call", Pending(op, "waitForGoal"))
         ELSE IF recipe = "none" THEN Finish(op, "call", "error: No available recipe")
         ELSE Suspend("call", Pending(op, "craft"))
     ELSE
       \E target \in BOOLEAN :
         IF ~target THEN Finish(op, "call", "error: Cannot find a target")
         ELSE /\ staleSafety < MaxStale
              /\ Suspend("call", Pending(op, "attacking"))
  /\ goal' = IF call' # NoCall /\ call'.pc = "waitForGoal" THEN CallGoal
             ELSE IF lastOp'.result \in {"Stopped all actions.", "Following"} THEN NoGoal
             ELSE goal
  /\ UNCHANGED << schedVars, sessionVars, exitTimer, ticks, isEating, world, staleSafety >>

\* a navigation wait whose timeout fails every action, collectBlock too
GoalSettles_NoCatch ==
  /\ call # NoCall
  /\ call.pc = "waitForGoal"
  /\ \E how \in {"goal_reached", "path_stop", "timeout"} :
       IF how = "timeout" THEN Finish(call.op, how, PathTimeoutError)
       ELSE IF call.op = "moveTo" THEN Finish(call.op, how, "Arrived near")
       ELSE IF call.op = "digAt" THEN Suspend(how, [call EXCEPT !.pc = "dig"])
       ELSE IF call.op = "placeBlock" THEN Suspend(how, [call EXCEPT !.pc = "place"])
       ELSE IF call.op = "collectBlock" THEN
         \E gone \in BOOLEAN :
           IF gone THEN CollectFrom(call, how)
           ELSE Suspend(how, [call EXCEPT !.pc = "dig"])
       ELSE \E recipe \in BOOLEAN :
              IF recipe THEN Suspend(how, [call EXCEPT !.pc = "craft"])
              ELSE Finish(call.op, how, "error: No available recipe")
  /\ goal' = IF call' # NoCall /\ call'.pc = "waitForGoal" THEN CallGoal ELSE NoGoal
  /\ UNCHANGED << schedVars, sessionVars, exitTimer, ticks, isEating, world, staleSafety >>

\* waitForGoal settles: by the goal_reached or the path_stop event, or by
\* its 30 s timer, which rejects
GoalSettles ==
  /\ call # NoCall
  /\ call.pc = "waitForGoal"
  /\ \E how \in {"goal_reached", "path_stop", "timeout"} :
       IF how = "timeout" THEN
         IF call.op = "collectBlock" THEN CollectFrom(call, how)
         ELSE Finish(call.op, how, PathTimeoutError)
       ELSE IF call.op = "moveTo" THEN Finish(call.op, how, "Arrived near")
       ELSE IF call.op = "digAt" THEN Suspend(how, [call EXCEPT !.pc = "dig"])
       ELSE IF call.op = "placeBlock" THEN Suspend(how, [call EXCEPT !.pc = "place"])
       ELSE IF call.op = "collectBlock" THEN
         \E gone \in BOOLEAN :
           IF gone THEN CollectFrom(call, how)
           ELSE Suspend(how, [call EXCEPT !.pc = "dig"])
       ELSE \E recipe \in BOOLEAN :
              IF recipe THEN Suspend(how, [call EXCEPT !.pc = "craft"])
              ELSE Finish(call.op, how, "error: No available recipe")
  /\ goal' = IF call' # NoCall /\ call'.pc = "waitForGoal" THEN CallGoal ELSE NoGoal
  /\ UNCHANGED << schedVars, sessionVars, exitTimer, ticks, isEating, world, staleSafety >>

\* b.dig, b.placeBlock or b.craft settles
WorkSettles ==
  /\ call # NoCall
  /\ call.pc \in {"dig", "place", "craft"}
  /\ \E how \in {"resolved", "rejected"} :
       IF call.op = "collectBlock" THEN
         CollectFrom([call EXCEPT !.collected = IF how = "resolved" THEN @ + 1 ELSE @],
                     how)
       ELSE IF how = "rejected" THEN Finish(call.op, how, "error: " \o call.pc \o " failed")
       ELSE IF call.op = "digAt" THEN Finish(call.op, how, "Dug " \o call.block)
       ELSE IF call.op = "placeBlock" THEN Finish(call.op, how, "Block placed.")
       ELSE Finish(call.op, how, "Crafted")
  /\ goal' = IF call' # NoCall /\ call'.pc = "waitForGoal" THEN CallGoal ELSE goal
  /\ UNCHANGED << schedVars, sessionVars, exitTimer, ticks, isEating, world, staleSafety >>

\* the world replaces or removes the block at the target position
WorldChange ==
  /\ call = NoCall \/ (call.op \in {"digAt", "placeBlock"} /\ call.pc = "waitForGoal")
  /\ \E b \in Blocks \ {world} : world' = b
  /\ lastOp' = Op("world", "", NoOverrides, "", NoSnapshot)
  /\ UNCHANGED << schedVars, sessionVars, exitTimer, ticks, isEating, call, staleSafety, goal >>

\* an attackInterval callback that does not look at entity.isValid
AttackCheck_IgnoresValidity ==
  /\ call # NoCall
  /\ call.pc = "attacking"
  /\ (call.checks + 1) * AttackCooldown <= SafetyTimeout
  /\ Suspend("check", [call EXCEPT !.checks = @ + 1, !.commands = @ + 1])
  /\ staleSafety' = staleSafety
  /\ \E chase \in BOOLEAN : goal' = IF chase THEN NoGoal ELSE goal
  /\ UNCHANGED << schedVars, sessionVars, exitTimer, ticks, isEating, world >>

\* a firing of attackInterval, 0.4 s after the one before: the target is
\* gone (the loop ends, its safety timeout stays armed), or it is chased or
\* hit (one command to the session)
AttackCheck ==
  /\ call # NoCall
  /\ call.pc = "attacking"
  /\ (call.checks + 1) * AttackCooldown <= SafetyTimeout
  /\ IF ~call.valid
       THEN /\ Finish(call.op, "check", "Killed")
            /\ staleSafety' = staleSafety + 1
            /\ goal' = NoGoal
       ELSE /\ Suspend("check", [call EXCEPT !.checks = @ + 1, !.commands = @ + 1])
            /\ staleSafety' = staleSafety
            /\ \E chase \in BOOLEAN : goal' = IF chase THEN NoGoal ELSE goal
  /\ UNCHANGED << schedVars, sessionVars, exitTimer, ticks, isEating, world >>

\* the target dies or leaves: entity.isValid becomes false
EntityGone ==
  /\ call # NoCall
  /\ call.pc = "attacking"
  /\ call.valid
  /\ call' = [call EXCEPT !.valid = FALSE]
  /\ lastOp' = Op("world", call.op, NoOverrides, "", NoSnapshot)
  /\ UNCHANGED << schedVars, sessionVars, exitTimer, ticks, isEating, world, staleSafety, goal >>

\* the safety timeout of a loop that is still running fires, 60 s after
\* the call: no firing of attackInterval is due before it any more
SafetyFires ==
  /\ call # NoCall
  /\ call.pc = "attacking"
  /\ (call.checks + 1) * AttackCooldown >= SafetyTimeout
  /\ Finish(call.op, "timeout", "Stopped attacking (timeout)")
  /\ goal' = NoGoal
  /\ UNCHANGED << schedVars, sessionVars, exitTimer, ticks, isEating, world, staleSafety >>

\* the safety timeout of a loop that has resolved fires: clearInterval and
\* b.pathfinder.stop() again, and a resolve the promise ignores
StaleSafetyFires ==
  /\ staleSafety > 0
  /\ staleSafety' = staleSafety - 1
  /\ lastOp' = Op("facade", "attackUntilDead", [event |-> "stale timeout"], "ignored",
                  NoSnapshot)
  /\ goal' = NoGoal
  /\ UNCHANGED << schedVars, sessionVars, exitTimer, ticks, isEating, call, world >>

AttackOps == {"attackNearest", "attackEntity"}

\* The actions called with and without a session, while the world changes
\* and the session comes and goes; the two attack actions are called here
\* with no session only.
NextFacade ==
  \/ ConnectCreate(FacadeSessions)
  \/ disconnect
  \/ \E b \in Bots : OnSpawn(b)
  \/ \E b \in Bots : OnEnd(b)
  \/ StartBehavior("guard", NoOverrides, FacadeTimers)
  \/ \E op \in FacadeOps \ AttackOps : FacadeCall(op)
  \/ \E op \in AttackOps : bot = Null /\ FacadeCall(op)
  \/ GoalSettles
  \/ WorkSettles
  \/ WorldChange

SpecFacade == Init /\ [][NextFacade]_vars

\* The attack actions called on the sessions that are held, and moveTo
\* called between them.
NextAttack ==
  \/ ConnectCreate(FacadeSessions)
  \/ disconnect
  \/ \E b \in Bots : OnSpawn(b)
  \/ \E op \in AttackOps : FacadeCall(op)
  \/ FacadeCall("moveTo")
  \/ GoalSettles
  \/ AttackCheck
  \/ EntityGone
  \/ SafetyFires
  \/ StaleSafetyFires

SpecAttack == Init /\ [][NextAttack]_vars

\* the starts made in SpecWaits
WaitStarts ==
  { << "auto_eat", NoOverrides >>,
    << "auto_collect", NoOverrides >>,
    << "patrol", [waypoints |-> Waypoints] >> }

\* the suspensions that arm a timer of their own
TimedWaits ==
  [id : 1..WaitInFlight, name : {"auto_eat"}, pc : {"consuming"}]
    \cup [id : 1..WaitInFlight, name : {"auto_collect", "patrol"}, pc : {"navigating"}]

\* the timer of waitForGoal fires
GoalTimesOut == GoalSettles /\ lastOp'.ov = [event |-> "timeout"]

\* ------------------------------------------------------------------------
\* Chat commands of the standalone mode: chat-commands.ts
\* ------------------------------------------------------------------------

\* the command registry: name, aliases and the ownerOnly mark
commands ==
  << [name |-> "help", aliases |-> {"h", "?"}, ownerOnly |-> FALSE],
     [name |-> "status", aliases |-> {"stat", "info"}, ownerOnly |-> FALSE],
     [name |-> "players", aliases |-> {"who", "online"}, ownerOnly |-> FALSE],
     [name |-> "time", aliases |-> {}, ownerOnly |-> FALSE],
     [name |-> "weather", aliases |-> {}, ownerOnly |-> FALSE],
     [name |-> "come", aliases |-> {"here"}, ownerOnly |-> FALSE],
     [name |-> "goto", aliases |-> {"go", "move"}, ownerOnly |-> FALSE],
     [name |-> "follow", aliases |-> {"stalk"}, ownerOnly |-> FALSE],
     [name |-> "stop", aliases |-> {"halt", "cancel"}, ownerOnly |-> FALSE],
     [name |-> "jump", aliases |-> {}, ownerOnly |-> FALSE],
     [name |-> "look", aliases |-> {}, ownerOnly |-> FALSE],
     [name |-> "dig", aliases |-> {"mine", "break"}, ownerOnly |-> FALSE],
     [name |-> "digat", aliases |-> {}, ownerOnly |-> FALSE],
     [name |-> "collect", aliases |-> {"gather"}, ownerOnly |-> FALSE],
     [name |-> "place", aliases |-> {}, ownerOnly |-> FALSE],
     [name |-> "inventory", aliases |-> {"inv", "items"}, ownerOnly |-> FALSE],
     [name |-> "equip", aliases |-> {}, ownerOnly |-> FALSE],
     [name |-> "toss", aliases |-> {"drop", "throw"}, ownerOnly |-> FALSE],
     [name |-> "hold", aliases |-> {"select"}, ownerOnly |-> FALSE],
     [name |-> "craft", aliases |-> {}, ownerOnly |-> FALSE],
     [name |-> "attack", aliases |-> {"fight", "kill"}, ownerOnly |-> FALSE],
     [name |-> "flee", aliases |-> {"run"}, ownerOnly |-> FALSE],
     [name |-> "say", aliases |-> {"chat"}, ownerOnly |-> FALSE],
     [name |-> "disconnect", aliases |-> {"quit", "dc"}, ownerOnly |-> TRUE] >>

\* aliasMap.get(name) ?? name
aliasMap(name) ==
  IF \E i \in DOMAIN commands : name \in commands[i].aliases
    THEN commands[CHOOSE i \in DOMAIN commands : name \in commands[i].aliases].name
    ELSE name

\* commands.find((c) => c.name === resolved); 0 when there is none
FindCommand(resolved) ==
  IF \E i \in DOMAIN commands : commands[i].name = resolved
    THEN CHOOSE i \in DOMAIN commands : commands[i].name = resolved
    ELSE 0

\* the name the bot plays under, the players that write, and the values
\* OWNER_USERNAME may have ("" when it is not set)
BotUsername == "OpenClaw"
ChatSenders == {BotUsername, "alice", "mallory"}
Owners == {"", "alice"}
\* the first word of a message after the prefix
ChatNames == {"disconnect", "dc", "status", "fly", ""}

\* handleMessage up to cmd.execute: `prefixed` says whether the message
\* starts with the prefix, `name` is its first word in lower case. reply
\* is what the handler answers ("" for nothing), run the command it goes
\* on to execute ("" for none).
handleMessage(owner, sender, prefixed, name) ==
  IF sender = BotUsername \/ ~prefixed \/ name = ""
    THEN [reply |-> "", run |-> ""]
  ELSE
    LET cmd == FindCommand(aliasMap(name)) IN
    IF cmd = 0 THEN [reply |-> "Unknown command: " \o name, run |-> ""]
    ELSE IF commands[cmd].ownerOnly /\ owner # "" /\ sender # owner
      THEN [reply |-> "Permission denied.", run |-> ""]
    ELSE [reply |-> "", run |-> commands[cmd].name]

\* a chat message or a whisper reaches the handlers that
\* setupChatCommands registered on the spawned session; !disconnect
\* answers and arms its 1 s timer, !status answers with the snapshot
ChatMessage ==
  /\ bot # Null
  /\ sessions[bot].phase = "spawned"
  /\ exitTimer # "exited"
  /\ \E owner \in Owners, sender \in ChatSenders, prefixed \in BOOLEAN,
        name \in ChatNames :
       LET r == handleMessage(owner, sender, prefixed, name)
           reply == IF r.run = "disconnect" THEN "Goodbye!"
                    ELSE IF r.run = "status" THEN "HP"
                    ELSE r.reply
       IN /\ lastOp' = Op("chat", name,
                          [owner |-> owner, sender |-> sender, prefixed |-> prefixed,
                           run |-> r.run],
                          reply, NoSnapshot)
          /\ exitTimer' = IF r.run = "disconnect" /\ exitTimer = "none" THEN "armed"
                          ELSE exitTimer
  /\ UNCHANGED << schedVars, sessionVars, asyncVars >>

\* the timer of !disconnect fires: mc.disconnect(), then process.exit(0)
ExitTimerFires ==
  /\ exitTimer = "armed"
  /\ disconnectFrom("chat disconnect")
  /\ exitTimer' = "exited"

\* The standalone process: it connects, players write in the chat, and a
\* behavior runs, until the process exits.
NextChat ==
  \/ exitTimer # "exited" /\ ConnectCreate(FacadeSessions)
  \/ \E b \in Bots : exitTimer # "exited" /\ OnSpawn(b)
  \/ exitTimer # "exited" /\ StartBehavior("guard", NoOverrides, FacadeTimers)
  \/ ChatMessage
  \/ ExitTimerFires

SpecChat == Init /\ [][NextChat]_vars

\* auto_eat started and stopped while sessions come and go and its ticks
\* are in flight.
NextEat ==
  \/ ConnectCreate(MaxSessions)
  \/ disconnect
  \/ \E b \in Bots : OnSpawn(b)
  \/ \E b \in Bots : OnEnd(b)
  \/ StartBehavior("auto_eat", NoOverrides, TickTimers)
  \/ StopBehavior("auto_eat")
  \/ \E t \in liveTimers : TimerFireAsync(t, WaitInFlight)
  \/ \E k \in ticks : TickResume(k)

SpecEat == Init /\ [][NextEat]_vars

\* the starts made in SpecPatrol: no waypoints, waypoints, and waypoints
\* with an index beyond the list
PatrolStarts ==
  { NoOverrides,
    [waypoints |-> Waypoints],
    [waypoints |-> Waypoints, currentIndex |-> 1],
    [waypoints |-> Waypoints, currentIndex |-> 5] }

\* A patrol started, patched and stopped while its timer fires.
NextPatrol ==
  \/ ConnectCreate(FacadeSessions)
  \/ \E b \in Bots : OnSpawn(b)
  \/ \E ov \in PatrolStarts : StartBehavior("patrol", ov, PatrolTimers)
  \/ StopBehavior("patrol")
  \/ \E t \in liveTimers : TimerFireAsync(t, WaitInFlight)
  \/ \E k \in ticks : TickResume(k)

SpecPatrol == Init /\ [][NextPatrol]_vars

\* The navigation and eat waits of the ticks and of the actions over one
\* connection.
NextWaits ==
  \/ ConnectCreate(FacadeSessions)
  \/ \E b \in Bots : OnSpawn(b)
  \/ \E st \in WaitStarts : StartBehavior(st[1], st[2], FacadeTimers)
  \/ \E t \in liveTimers : TimerFireAsync(t, WaitInFlight)
  \/ \E k \in ticks : TickResume(k)
  \/ FacadeCall("moveTo")
  \/ GoalSettles

\* The timers the waits arm fire when they are due; no event has to come.
SpecWaits ==
  /\ Init /\ [][NextWaits]_vars
  /\ \A k \in TimedWaits : WF_vars(Wake(k, "timeout"))
  /\ WF_vars(GoalTimesOut)

\* The scheduler driven with every name and override, over one connection
\* after another.
NextSched ==
  \/ ConnectCreate(SchedSessions)
  \/ disconnect
  \/ \E b \in Bots : OnSpawn(b)
  \/ \E b \in Bots : OnEnd(b)
  \/ \E name \in InputNames, ov \in InputOverrides : StartBehavior(name, ov, MaxIds)
  \/ \E name \in InputNames : StopBehavior(name)
  \/ StopAllBehaviors
  \/ ListBehaviors
  \/ \E t \in liveTimers : TimerFire(t)

SpecSched == Init /\ [][NextSched]_vars

\* The session handle driven with every connect, disconnect and session
\* event, one behaviour being started on the sessions it holds.
NextSession ==
  \/ ConnectHeld
  \/ ConnectCreate(MaxSessions)
  \/ disconnect
  \/ ServiceStop
  \/ Snapshot
  \/ \E b \in Bots : OnSpawn(b)
  \/ \E b \in Bots : OnError(b)
  \/ \E b \in Bots : OnEnd(b)
  \/ \E b \in Bots : OnKicked(b)
  \/ StartBehavior("guard", NoOverrides, SessionTimers)
  \/ \E t \in liveTimers : TimerFire(t)

SpecSession == Init /\ [][NextSession]_vars

\* The attack actions with timers that fire: an interval or a timeout
\* that is due is run by the event loop.
SpecAttackLive ==
  SpecAttack /\ WF_vars(AttackCheck) /\ WF_vars(SafetyFires)

\* ------------------------------------------------------------------------
\* Properties of the Behavior Scheduler (checked under SpecSched)
\* ------------------------------------------------------------------------

TimersOf(timers, name) == {t \in timers : t.name = name}
Running(name) == TimersOf(liveTimers, name) # {}

\* every record but the one at `ref` is the same before and after the step
OtherRecordsUnchanged(ref) == \A r \in Ids \ {ref} : heap'[r] = heap[r]

\* C1 (at most one timer per behavior): in every reachable state each name
\* has at most one live interval timer, and a startBehavior step on a name
\* that has a live timer leaves the set of live timers as it was: no second
\* timer, and the existing one is not replaced.
C1_AtMostOneTimer ==
  /\ [](\A n \in MapKeys : Cardinality(TimersOf(liveTimers, n)) <= 1)
  /\ [][(lastOp'.op = "start" /\ Running(lastOp'.name))
          => (liveTimers' = liveTimers /\ activeTimers' = activeTimers)]_vars

C1_Witness ==
  /\ lastOp.op = "start"
  /\ lastOp.result \in {"config updated.", "is already running."}
  /\ Cardinality(TimersOf(liveTimers, lastOp.name)) = 1
  /\ \E n \in MapKeys : n # lastOp.name /\ Running(n)

\* C2 (start on a running behavior): with overrides, every override key is
\* written into the record the behavior already has, its other keys and
\* every other record are unchanged, the Maps and timers are unchanged and
\* the result is "config updated"; without overrides nothing changes and
\* the result is "already running".
C2_StartWhileRunning ==
  [][(lastOp'.op = "start" /\ Running(lastOp'.name))
       => LET name == lastOp'.name
              ov == lastOp'.ov
              ref == behaviorStates[name]
          IN /\ liveTimers' = liveTimers
             /\ activeTimers' = activeTimers
             /\ behaviorStates' = behaviorStates
             /\ schedBot' = schedBot
             /\ OtherRecordsUnchanged(ref)
             /\ IF ov # NoOverrides
                  THEN /\ lastOp'.result = "config updated."
                       /\ DOMAIN heap'[ref] = DOMAIN heap[ref] \cup DOMAIN ov
                       /\ \A k \in DOMAIN ov : heap'[ref][k] = ov[k]
                       /\ \A k \in DOMAIN heap[ref] \ DOMAIN ov :
                            heap'[ref][k] = heap[ref][k]
                  ELSE /\ lastOp'.result = "is already running."
                       /\ heap' = heap]_vars

\* a patch that kept a key an earlier start had overridden
C2_Witness ==
  /\ lastOp.op = "start"
  /\ lastOp.result = "config updated."
  /\ lastOp.ov = [enabled |-> FALSE]
  /\ Running(lastOp.name)
  /\ lastOp.name = "auto_eat"
  /\ heap[behaviorStates[lastOp.name]] = [enabled |-> FALSE, threshold |-> 14, radius |-> 8]

\* C3 (tick failure isolation): a firing whose tick throws is caught (the
\* callback never ends in an error); the step changes no timer, no Map and
\* no record, so the behavior keeps its live timer with enabled = TRUE and a
\* session, which is what its next firing tests before it invokes the tick,
\* and every other behavior is untouched.
C3_TickFailureIsolated ==
  /\ [](lastOp.op = "fire" => lastOp.result \in {"skipped", "returned", "caught"})
  /\ [][(lastOp'.op = "fire" /\ lastOp'.result = "caught")
          => /\ UNCHANGED schedVars
             /\ \E t \in TimersOf(liveTimers', lastOp'.name) :
                  /\ heap'[t.state].enabled
                  /\ schedBot' # Null
                  /\ \A tick \in {"returns", "throws"} :
                       intervalCallback(Sched, t, tick)'.result # "skipped"]_vars

C3_Witness ==
  /\ lastOp.op = "fire"
  /\ lastOp.result = "caught"
  /\ Running(lastOp.name)
  /\ \E n \in MapKeys : n # lastOp.name /\ Running(n)

\* shutdownAutonomous() has just run: the end handler, or a disconnect()
\* that found a session
ShutdownRan(op) ==
  \/ op.op = "end"
  \/ op.op = "disconnect" /\ op.result = "Disconnected."

\* C4 (teardown completeness): after shutdownAutonomous() no timer is live,
\* listBehaviors() reports running = FALSE for every registered behavior and
\* the session reference is released; when nothing was running the call
\* changes nothing else.
C4_ShutdownStopsAll ==
  /\ [](ShutdownRan(lastOp)
          => /\ liveTimers = {}
             /\ \A i \in DOMAIN behaviorDefs : ~listBehaviors(Sched)[i].running
             /\ schedBot = Null)
  /\ [][(ShutdownRan(lastOp') /\ liveTimers = {})
          => UNCHANGED << activeTimers, behaviorStates, heap, liveTimers >>]_vars

\* a shutdown after two behaviors had been started
C4_Witness ==
  /\ ShutdownRan(lastOp)
  /\ liveTimers = {}
  /\ behaviorStates["guard"] # Null
  /\ behaviorStates["auto_eat"] # Null
  /\ ~heap[behaviorStates["guard"]].enabled
  /\ ~heap[behaviorStates["auto_eat"]].enabled

\* C5 (stop is idempotent): stopBehavior on a name with no live timer
\* returns "not running", throws nothing and changes no scheduler state;
\* and after any stopBehavior(name) the name has no live timer, so that a
\* second call in a row is such a call and leaves the state the first left.
C5_StopIdempotent ==
  /\ [](lastOp.op = "stop"
          => /\ ~Running(lastOp.name)
             /\ lastOp.result \in {"stopped.", "is not running."})
  /\ [][(lastOp'.op = "stop" /\ ~Running(lastOp'.name))
          => /\ lastOp'.result = "is not running."
             /\ UNCHANGED schedVars]_vars

\* a stop of a behavior that had been stopped before
C5_Witness ==
  /\ lastOp.op = "stop"
  /\ lastOp.result = "is not running."
  /\ behaviorStates[lastOp.name] # Null
  /\ \E n \in MapKeys : Running(n)

\* ------------------------------------------------------------------------
\* Properties of the Session Handle (checked under SpecSession)
\* ------------------------------------------------------------------------

\* the world sessions that exist: created, and neither closed by quit() nor
\* ended
LiveSessions == {b \in Bots : sessions[b].phase \in {"handshake", "spawned"}}

DisconnectedSnapshot ==
  [status |-> "disconnected", health |-> 0, food |-> 0, position |-> <<>>,
   dimension |-> "null", experience |-> 0, gameMode |-> "unknown"]

\* C6 (singleton session): at most one world session exists at any time,
\* also when connect is called again while an earlier connect is still
\* connecting; and a connect made while connected creates no session and
\* starts no handshake.
C6_SingletonSession ==
  /\ [](Cardinality(LiveSessions) <= 1)
  /\ [][(lastOp'.op = "connect" /\ currentStatus = "connected")
          => (lastOp'.result = "resolved" /\ UNCHANGED << sessionVars, schedVars >>)]_vars

\* C7 (status transitions): the status changes only along
\* disconnected -> connecting, connecting -> connected,
\* connecting -> disconnected and connected -> disconnected.
StatusEdges ==
  { << "disconnected", "connecting" >>, << "connecting", "connected" >>,
    << "connecting", "disconnected" >>, << "connected", "disconnected" >> }

C7_StatusTransitions ==
  [][currentStatus' # currentStatus
       => << currentStatus, currentStatus' >> \in StatusEdges]_vars

\* C8 (connect settles): a connect that started a handshake is settled once
\* its session is over: no session has ended with its connect still pending
\* (nothing can settle it after that), and a settled connect stays as it
\* was settled.
C8_ConnectSettles ==
  /\ [](\A b \in Bots : sessions[b].phase = "ended" => sessions[b].promise # "pending")
  /\ [][\A b \in Bots : sessions[b].promise \in {"resolved", "rejected"}
                          => sessions'[b].promise = sessions[b].promise]_vars

\* C9 (idempotent disconnect): disconnect() with no session held returns
\* "Already disconnected." and changes neither the status, the session
\* reference, the sessions nor any scheduler state; with a session held it
\* returns "Disconnected." and leaves status disconnected and no session.
C9_DisconnectIdempotent ==
  [][lastOp'.op = "disconnect"
       => IF bot = Null
            THEN /\ lastOp'.result = "Already disconnected."
                 /\ UNCHANGED << sessionVars, schedVars >>
            ELSE /\ lastOp'.result = "Disconnected."
                 /\ currentStatus' = "disconnected"
                 /\ bot' = Null]_vars

\* a disconnect() made while a connect is still connecting
C9_Witness ==
  /\ lastOp.op = "disconnect"
  /\ lastOp.result = "Already disconnected."
  /\ currentStatus = "connecting"

\* C10 (disconnected snapshot): snapshot() with no session held returns the
\* zeroed record with status disconnected, whatever the status variable is,
\* and a snapshot() step changes no state.
C10_DisconnectedSnapshot ==
  /\ []((lastOp.op = "snapshot" /\ bot = Null) => lastOp.snap = DisconnectedSnapshot)
  /\ [][lastOp'.op = "snapshot" => UNCHANGED << sessionVars, schedVars >>]_vars

\* a snapshot() taken while a connect is still connecting
C10_Witness ==
  /\ lastOp.op = "snapshot"
  /\ bot = Null
  /\ currentStatus = "connecting"
  /\ lastOp.snap.status = "disconnected"

\* ------------------------------------------------------------------------
\* Run-states, results and teardown (C11 to C20)
\* ------------------------------------------------------------------------

\* the enabled flag of the run-state a name has, FALSE when it has none
Enabled(name) ==
  /\ behaviorStates[name] # Null
  /\ heap[behaviorStates[name]].enabled

\* C11 (timer and enabled flag agree): in every reachable state a behavior
\* has a live timer exactly when its run-state has enabled = TRUE, whatever
\* overrides the start calls were given.
C11_TimerIffEnabled ==
  \A n \in MapKeys : Running(n) <=> Enabled(n)

\* the entry listBehaviors() has for a registered name
ListEntry(name) == listBehaviors(Sched)[FindDef(name)]

\* C12 (stop keeps the configuration): stopBehavior on a running behavior
\* clears its timer, sets enabled = FALSE in its run-state and changes no
\* other key of it, nor any other record; a stopped behavior that has a
\* run-state is listed as not running with that record as its config; and
\* the record stays as it is over every step that is not a start of that
\* name.
C12_StopRetainsConfig ==
  /\ [](\A n \in RegisteredNames :
          (~Running(n) /\ behaviorStates[n] # Null)
          => /\ ~ListEntry(n).running
             /\ ListEntry(n).config = heap[behaviorStates[n]]
             /\ ~ListEntry(n).config.enabled)
  /\ [][lastOp'.op = "stop"
          => \A name \in RegisteredNames :
               (lastOp'.name = name /\ Running(name))
               => LET ref == behaviorStates[name]
                  IN /\ lastOp'.result = "stopped."
                     /\ TimersOf(liveTimers', name) = {}
                     /\ liveTimers' = liveTimers \ TimersOf(liveTimers, name)
                     /\ behaviorStates' = behaviorStates
                     /\ heap'[ref] = [heap[ref] EXCEPT !.enabled = FALSE]
                     /\ OtherRecordsUnchanged(ref)]_vars
  /\ [][\A n \in RegisteredNames :
          (/\ ~Running(n)
           /\ behaviorStates[n] # Null
           /\ ~(lastOp'.op = "start" /\ lastOp'.name = n))
          => /\ TimersOf(liveTimers', n) = {}
             /\ behaviorStates'[n] = behaviorStates[n]
             /\ heap'[behaviorStates[n]] = heap[behaviorStates[n]]]_vars

\* a listing made after a patched guard was stopped
C12_Witness ==
  /\ lastOp.op = "list"
  /\ ~Running("guard")
  /\ ListEntry("guard") = [name |-> "guard", running |-> FALSE,
                           config |-> [enabled |-> FALSE, radius |-> 8]]

\* C13 (restart keeps the last-known configuration): a startBehavior that
\* starts a stopped behavior which has a run-state leaves it with the
\* record defaults (+) last-known record (+) overrides: every key of the
\* last-known record that the overrides do not name keeps its last-known
\* value (the enabled flag apart, which the start sets).
C13_RestartMergesLastKnown ==
  [][lastOp'.op = "start" /\ lastOp'.result = "started."
       => \A name \in RegisteredNames :
            (lastOp'.name = name /\ behaviorStates[name] # Null)
            => LET last == heap[behaviorStates[name]]
                   new == heap'[behaviorStates'[name]]
               IN \A k \in DOMAIN last \ (DOMAIN Spread(lastOp'.ov) \cup {"enabled"}) :
                    /\ k \in DOMAIN new
                    /\ new[k] = last[k]]_vars

\* C14 (first start): a startBehavior that starts a behavior which has no
\* run-state yet leaves it with a record whose enabled is TRUE, whose
\* option keys named in the overrides have the override values and whose
\* other keys are the defaults (and no further key); exactly one timer is
\* added, for that name at the definition's interval; listBehaviors() then
\* reports the name running with that record.
C14_FirstStart ==
  [][lastOp'.op = "start" /\ lastOp'.result = "started."
       => \A name \in RegisteredNames :
            (lastOp'.name = name /\ behaviorStates[name] = Null)
            => LET def == behaviorDefs[FindDef(name)]
                   ov == Spread(lastOp'.ov)
                   new == heap'[behaviorStates'[name]]
               IN /\ behaviorStates'[name] # Null
                  /\ new.enabled = TRUE
                  /\ DOMAIN new = {"enabled"} \cup DOMAIN def.defaultConfig \cup DOMAIN ov
                  /\ \A k \in DOMAIN ov \ {"enabled"} : new[k] = ov[k]
                  /\ \A k \in DOMAIN def.defaultConfig \ DOMAIN ov :
                       new[k] = def.defaultConfig[k]
                  /\ \E t \in liveTimers' \ liveTimers :
                       /\ liveTimers' = liveTimers \cup {t}
                       /\ t.name = name
                       /\ t.interval = def.interval
                       /\ TimersOf(liveTimers', name) = {t}
                  /\ ListEntry(name)'.running
                  /\ ListEntry(name)'.config = new]_vars

\* the UnknownBehavior error for `name`, with the five registered names
IsUnknownBehavior(result, name) ==
  result = "error: Unknown behavior: " \o name
             \o ". Available: auto_eat, guard, auto_collect, auto_follow, patrol"

\* C15 as stated (unknown name on start): every startBehavior of a name
\* that is not registered fails with the UnknownBehavior error listing the
\* valid names, and changes no timer and no run-state.
C15_Original ==
  [][(lastOp'.op = "start" /\ lastOp'.name \notin RegisteredNames)
       => /\ IsUnknownBehavior(lastOp'.result, lastOp'.name)
          /\ UNCHANGED schedVars]_vars

\* C15 (unknown name on start): a startBehavior of a name that is not
\* registered changes no timer and no run-state; it fails with the
\* UnknownBehavior error listing the valid names when the scheduler holds a
\* session, and with "Bot not connected." when it holds none.
C15_StartUnknown ==
  [][(lastOp'.op = "start" /\ lastOp'.name \notin RegisteredNames)
       => /\ IF schedBot # Null
               THEN IsUnknownBehavior(lastOp'.result, lastOp'.name)
               ELSE lastOp'.result = "error: Bot not connected."
          /\ UNCHANGED schedVars]_vars

\* an unknown name started while a behavior is running
C15_Witness ==
  /\ lastOp.op = "start"
  /\ lastOp.name = UnknownName
  /\ IsUnknownBehavior(lastOp.result, UnknownName)
  /\ activeTimers[UnknownName] = NoTimer
  /\ behaviorStates[UnknownName] = Null
  /\ \E n \in MapKeys : Running(n)

\* C16 (unknown name on stop): every stopBehavior of a name that is not
\* registered fails with the UnknownBehavior error listing the valid names.
C16_StopUnknown ==
  [][(lastOp'.op = "stop" /\ lastOp'.name \notin RegisteredNames)
       => IsUnknownBehavior(lastOp'.result, lastOp'.name)]_vars

\* the orders in which the names of a set can be listed
Listings(names) ==
  {seq \in [1..Cardinality(names) -> names] :
     \A i, j \in DOMAIN seq : i # j => seq[i] # seq[j]}

\* C17 (stop all): stopAllBehaviors() leaves no timer live, sets enabled =
\* FALSE in the run-state of every behavior that was running and changes no
\* other record and no Map entry of run-states; its result is "Stopped: "
\* with exactly the names that were running; when none was running the
\* result is "No behaviors were running." and nothing changes.
C17_StopAll ==
  [][lastOp'.op = "stopAll"
       => LET running == {n \in MapKeys : Running(n)}
              refs == {behaviorStates[n] : n \in running}
          IN IF running = {}
               THEN /\ lastOp'.result = "No behaviors were running."
                    /\ UNCHANGED schedVars
               ELSE /\ liveTimers' = {}
                    /\ activeTimers' = [n \in MapKeys |-> NoTimer]
                    /\ behaviorStates' = behaviorStates
                    /\ schedBot' = schedBot
                    /\ \A ref \in refs :
                         heap'[ref] = [heap[ref] EXCEPT !.enabled = FALSE]
                    /\ \A ref \in Ids \ refs : heap'[ref] = heap[ref]
                    /\ \E seq \in Listings(running) :
                         lastOp'.result = "Stopped: " \o Join(seq, ", ")]_vars

\* two behaviors stopped at once, guard having been started first
C17_Witness ==
  /\ lastOp.op = "stopAll"
  /\ lastOp.result = "Stopped: guard, auto_eat"
  /\ liveTimers = {}
  /\ ~Enabled("guard")
  /\ ~Enabled("auto_eat")

\* C18 (list is a pure read): in every reachable state listBehaviors()
\* returns one entry per registered behavior, in registry order, whose
\* running flag is TRUE exactly when the behavior has a live timer and whose
\* config is the behavior's run-state record when it has one and the
\* definition's defaultConfig otherwise; and a listBehaviors() step changes
\* no scheduler state and no session state.
C18_ListIsPureRead ==
  /\ [](LET list == listBehaviors(Sched) IN
          /\ DOMAIN list = DOMAIN behaviorDefs
          /\ \A i \in DOMAIN list :
               LET name == behaviorDefs[i].name IN
                 /\ list[i].name = name
                 /\ list[i].running <=> Running(name)
                 /\ list[i].config =
                      IF behaviorStates[name] # Null
                        THEN heap[behaviorStates[name]]
                        ELSE behaviorDefs[i].defaultConfig)
  /\ [][lastOp'.op = "list" => UNCHANGED << schedVars, sessionVars >>]_vars

\* a listing with one behavior running, one stopped and the others never
\* started
C18_Witness ==
  /\ lastOp.op = "list"
  /\ ListEntry("guard").running
  /\ ~ListEntry("auto_eat").running
  /\ ListEntry("auto_eat").config = [enabled |-> FALSE, threshold |-> 14, radius |-> 8]
  /\ ListEntry("patrol").config = [waypoints |-> <<>>, currentIndex |-> 0, waitMs |-> 2000]

\* C19 (the end of the session tears everything down): after a
\* disconnect() that found a session held, and after the end event of the
\* session that is held, the status is disconnected, no session is held, no
\* interval timer is live (activeTimers is empty) and the scheduler's
\* session reference is released.
C19_SessionEndTearsDown ==
  [][(\/ lastOp'.op = "disconnect" /\ bot # Null
      \/ /\ lastOp'.op = "end"
         /\ bot # Null
         /\ sessions[bot].phase # "ended"
         /\ sessions'[bot].phase = "ended")
       => /\ currentStatus' = "disconnected"
          /\ bot' = Null
          /\ liveTimers' = {}
          /\ activeTimers' = [n \in MapKeys |-> NoTimer]
          /\ schedBot' = Null]_vars

\* a disconnect() that closed the first session while guard was running
C19_Witness ==
  /\ lastOp.op = "disconnect"
  /\ lastOp.result = "Disconnected."
  /\ sessions[1].phase = "quit"
  /\ \A b \in Bots \ {1} : sessions[b].phase = "none"
  /\ behaviorStates["guard"] # Null
  /\ ~Enabled("guard")
  /\ liveTimers = {}
  /\ schedBot = Null
  /\ currentStatus = "disconnected"

\* C20 (the firing tests enabled and the session): a firing of a
\* behavior's timer invokes the tick exactly when the behavior's run-state
\* has enabled = TRUE and the scheduler holds a session; otherwise it is
\* skipped without an error.  In both cases the firing changes no timer, no
\* Map and no record: the timer stays armed as it was.
C20_FiringGuard ==
  [][lastOp'.op = "fire"
       => \A n \in RegisteredNames :
            lastOp'.name = n
            => /\ UNCHANGED schedVars
               /\ Cardinality(TimersOf(liveTimers', n)) = 1
               /\ IF schedBot # Null /\ Enabled(n)
                    THEN lastOp'.result \in {"returned", "caught"}
                    ELSE lastOp'.result = "skipped"]_vars

\* a firing of a timer whose run-state has enabled = FALSE
C20_Witness ==
  /\ lastOp.op = "fire"
  /\ lastOp.result = "skipped"
  /\ Running(lastOp.name)
  /\ ~Enabled(lastOp.name)
  /\ schedBot # Null

\* C22 (behaviors are independent): a startBehavior step (a start or a
\* config update) and a stopBehavior step on one name leave the Map
\* entries, the armed timer and the run-state record of every other name as
\* they were.
C22_OtherNamesUntouched ==
  [][lastOp'.op \in {"start", "stop"}
       => \A n \in MapKeys :
            n # lastOp'.name
            => /\ activeTimers'[n] = activeTimers[n]
               /\ behaviorStates'[n] = behaviorStates[n]
               /\ TimersOf(liveTimers', n) = TimersOf(liveTimers, n)
               /\ behaviorStates[n] # Null
                    => heap'[behaviorStates[n]] = heap[behaviorStates[n]]]_vars

\* a config update of guard made while auto_eat is running
C22_Witness ==
  /\ lastOp.op = "start"
  /\ lastOp.name = "guard"
  /\ lastOp.result = "config updated."
  /\ lastOp.ov = [radius |-> 8]
  /\ Running("auto_eat")
  /\ heap[behaviorStates["auto_eat"]] = [enabled |-> TRUE, threshold |-> 14]
  /\ heap[behaviorStates["guard"]] = [enabled |-> TRUE, radius |-> 8]

\* ------------------------------------------------------------------------
\* Ticks in flight (checked under SpecTicks)
\* ------------------------------------------------------------------------

\* the ticks of a behavior that are suspended at an await
TicksOf(name) == {k \in ticks : k.name = name}

\* C21 (stop and the ticks): a name that has no entry in activeTimers (it
\* was stopped, or never started) has no armed interval, and every firing
\* is one of a name that has an entry, so that no tick begins between a
\* stopBehavior and the next start that arms a timer; a stopBehavior step
\* leaves every tick in flight as it is; a tick in flight leaves `ticks`
\* only by its own continuation, which is possible in every state.
C21_StopLeavesTicksInFlight ==
  /\ [](\A n \in MapKeys : activeTimers[n] = NoTimer => TimersOf(liveTimers, n) = {})
  /\ [](\A k \in ticks : ENABLED TickResume(k))
  /\ [][lastOp'.op = "fire" => activeTimers[lastOp'.name] # NoTimer]_vars
  /\ [][lastOp'.op = "stop" => UNCHANGED taskVars]_vars
  /\ [][\A k \in ticks :
          (\A x \in ticks' : x.id # k.id)
          => (lastOp'.op = "resume" /\ lastOp'.name = k.name)]_vars

\* patrol was stopped while one of its ticks was waiting for the goal
C21_Witness ==
  /\ lastOp.op = "stop"
  /\ lastOp.result = "stopped."
  /\ lastOp.name = "patrol"
  /\ ~Running("patrol")
  /\ \E k \in TicksOf("patrol") : k.pc = "navigating"

\* ------------------------------------------------------------------------
\* Properties of the Action Facade (checked under SpecFacade and SpecAttack)
\* ------------------------------------------------------------------------

\* the step is the call of an action (the call up to its first await)
IsCall(op) == op.op = "facade" /\ op.ov = [event |-> "call"]

\* C23 (no session, no action): while no session is held, the call of any
\* action throws the not-connected error and startBehavior throws "Bot not
\* connected."; the failed call changes no session state, no scheduler
\* state and nothing that is in flight.
C23_NotConnected ==
  /\ [][(bot = Null /\ IsCall(lastOp'))
          => /\ lastOp'.name \in FacadeOps
             /\ lastOp'.result = NotConnectedError
             /\ UNCHANGED << sessionVars, schedVars, taskVars >>]_vars
  /\ [][(bot = Null /\ lastOp'.op = "start")
          => /\ lastOp'.result = "error: Bot not connected."
             /\ UNCHANGED << sessionVars, schedVars, taskVars >>]_vars

\* an attack called while a connect is still connecting
C23_Witness ==
  /\ IsCall(lastOp)
  /\ lastOp.name = "attackNearest"
  /\ lastOp.result = NotConnectedError
  /\ currentStatus = "connecting"
  /\ bot = Null
  /\ call = NoCall

\* C24 (a pathfinding timeout is a soft failure): no action ends in an
\* error because its navigation wait timed out; after the timeout the call
\* is still going on (or has returned a result that is not an error).
C24_TimeoutNotSurfaced ==
  (lastOp.op = "facade" /\ lastOp.ov = [event |-> "timeout"])
  => lastOp.result \in {"pending", "Arrived near"}
       \/ \E x, y \in 0..MaxCount :
            lastOp.result = "Collected " \o ToString(x) \o "/" \o ToString(y) \o " oak_log."

\* C25 (the target is resolved again after the walk): when the navigation
\* of digAt or placeBlock is over, the call goes on with the block the
\* world has at the target position at that moment; digAt fails when that
\* block is gone.
C25_ResolvesAgain ==
  [][(/\ lastOp'.op = "facade"
      /\ lastOp'.name \in {"digAt", "placeBlock"}
      /\ lastOp'.ov \in {[event |-> "goal_reached"], [event |-> "path_stop"]})
       => IF lastOp'.name = "digAt" /\ world \in {"air", "none"}
            THEN /\ call' = NoCall
                 /\ lastOp'.result = "error: No solid block at that position."
            ELSE /\ call' # NoCall
                 /\ call'.block = world]_vars

\* the string collectBlock returns for x blocks dug at y positions
Collected(x, y) == "Collected " \o ToString(x) \o "/" \o ToString(y) \o " oak_log."

\* a step of a collectBlock call has a result that is not an error
CollectGoesOn(result, x, y) == result = "pending" \/ result = Collected(x, y)

\* C26 as stated (collectBlock fails only at its start): every collectBlock
\* that fails does so at the call, because the block type is unknown or no
\* position was found.
C26_Original ==
  (lastOp.op = "facade" /\ lastOp.name = "collectBlock")
  => \/ lastOp.result = "pending"
     \/ \E x, y \in 0..MaxCount : lastOp.result = Collected(x, y)
     \/ /\ IsCall(lastOp)
        /\ lastOp.result \in {"error: Unknown block type",
                              "error: No oak_log found within 64 blocks."}

\* C26 (collectBlock is best effort): called with a session held,
\* collectBlock fails only at the call, because the block type is unknown
\* or no position was found (with no session it throws the not-connected
\* error).  Once Y >= 1 positions are found, Y <= count, no later step
\* fails: a navigation timeout and a failed dig end the position they
\* belong to and the loop goes on behind it; X grows by one exactly when a
\* dig resolves; the call returns "Collected X/Y" with 0 <= X <= Y.
C26_CollectBestEffort ==
  /\ [](call # NoCall /\ call.op = "collectBlock"
          => /\ 1 <= call.i /\ call.i <= call.found /\ call.found <= call.count
             /\ 0 <= call.collected /\ call.collected < call.i)
  /\ [][(IsCall(lastOp') /\ lastOp'.name = "collectBlock")
          => IF bot = Null THEN lastOp'.result = NotConnectedError
             ELSE \/ lastOp'.result \in {"error: Unknown block type",
                                         "error: No oak_log found within 64 blocks."}
                  \/ lastOp'.result = "pending"
                  \/ \E y \in 1..MaxCount : lastOp'.result = Collected(0, y)]_vars
  /\ [][(call # NoCall /\ call.op = "collectBlock" /\ lastOp'.op = "facade")
          => LET x == IF lastOp'.ov = [event |-> "resolved"]
                        THEN call.collected + 1 ELSE call.collected
             IN /\ lastOp'.name = "collectBlock"
                /\ CollectGoesOn(lastOp'.result, x, call.found)
                /\ x <= call.found
                /\ call' # NoCall
                     => /\ call'.collected = x
                        /\ call'.found = call.found
                        /\ call'.i >= call.i
                        /\ lastOp'.ov \in {[event |-> "timeout"], [event |-> "rejected"],
                                           [event |-> "resolved"]}
                             => call'.i > call.i]_vars

\* a batch of two positions that ended with a navigation timeout after one
\* block had been dug
C26_Witness ==
  /\ lastOp.op = "facade"
  /\ lastOp.name = "collectBlock"
  /\ lastOp.ov = [event |-> "timeout"]
  /\ lastOp.result = Collected(1, 2)
  /\ call = NoCall

\* an attack loop is running
Attacking == call # NoCall /\ call.pc = "attacking"

\* C27 (the attack loop ends, once): every attack loop ends; a cadence
\* check is made every 0.4 s up to 60 s and the safety timeout acts only
\* when no check is due before 60 s any more; the check that finds the
\* target invalid ends the loop with "Killed" and issues no command, a
\* check that finds it valid issues one; the loop ends with exactly one of
\* the two outcomes, and the timeout of a loop that has ended returns
\* nothing.
C27_AttackTerminates ==
  /\ Attacking ~> call = NoCall
  /\ [](Attacking => /\ call.checks * AttackCooldown <= SafetyTimeout
                     /\ call.commands = call.checks)
  /\ [][Attacking /\ lastOp'.ov = [event |-> "check"]
          => /\ (call.checks + 1) * AttackCooldown <= SafetyTimeout
             /\ IF call.valid
                  THEN /\ call' # NoCall
                       /\ call'.commands = call.commands + 1
                       /\ lastOp'.result = "pending"
                  ELSE /\ call' = NoCall
                       /\ lastOp'.result = "Killed"]_vars
  /\ [][Attacking /\ lastOp'.ov = [event |-> "timeout"]
          => /\ (call.checks + 1) * AttackCooldown >= SafetyTimeout
             /\ call' = NoCall
             /\ lastOp'.result = "Stopped attacking (timeout)"]_vars
  /\ [][Attacking /\ call' = NoCall
          => lastOp'.result \in {"Killed", "Stopped attacking (timeout)"}]_vars
  /\ [][lastOp'.ov = [event |-> "stale timeout"]
          => lastOp'.result = "ignored" /\ call' = call]_vars

\* a loop that ended at the check after its target had gone
C27_Witness ==
  /\ lastOp.op = "facade"
  /\ lastOp.name \in AttackOps
  /\ lastOp.ov = [event |-> "check"]
  /\ lastOp.result = "Killed"
  /\ call = NoCall
  /\ staleSafety = 1

\* ------------------------------------------------------------------------
\* Shutdown order (checked under SpecSession)
\* ------------------------------------------------------------------------

\* C28 (shutdown before close): a disconnect() that holds a session, made
\* by the tool or by the stop hook of the host, closes the connection when
\* the scheduler has no timer left and holds no session reference; the
\* stop hook runs disconnect() with or without a session: with none it
\* returns "Already disconnected." and changes nothing, with one it gives
\* the session up as the tool does.
C28_ShutdownBeforeClose ==
  /\ [][lastOp'.op \in {"disconnect", "service stop"} /\ bot # Null
          => /\ lastOp'.result = "Disconnected."
             /\ lastOp'.ov = [timers |-> {}, schedBot |-> Null]
             /\ sessions'[bot].phase = "quit"
             /\ liveTimers' = {}
             /\ schedBot' = Null
             /\ \A n \in MapKeys : activeTimers'[n] = NoTimer]_vars
  /\ [][lastOp'.op = "service stop"
          => IF bot = Null
               THEN /\ lastOp'.result = "Already disconnected."
                    /\ UNCHANGED << sessionVars, schedVars >>
               ELSE /\ bot' = Null
                    /\ currentStatus' = "disconnected"]_vars

\* the host has stopped the service while a behaviour was running
C28_Witness ==
  /\ lastOp.op = "service stop"
  /\ lastOp.result = "Disconnected."
  /\ \E b \in Bots : sessions[b].phase = "quit"
  /\ \E n \in RegisteredNames :
       /\ behaviorStates[n] # Null
       /\ ~heap[behaviorStates[n]].enabled

\* ------------------------------------------------------------------------
\* Overlapping ticks (checked under SpecTicks)
\* ------------------------------------------------------------------------

\* a patrol timer whose firing has a waypoint to walk to
CanPatrol(t) ==
  /\ t.name = "patrol"
  /\ schedBot # Null
  /\ heap[t.state].enabled
  /\ Len(heap[t.state].waypoints) > 0

\* C29 (ticks overlap): a firing is skipped only for a cleared enabled
\* flag or a missing session, never for a tick in flight; a firing that
\* suspends adds its tick to the ticks in flight and leaves the others
\* waiting; and a patrol timer with a waypoint can begin one more
\* suspended tick whatever ticks are in flight.
C29_TicksOverlap ==
  /\ [](\A t \in liveTimers :
          CanPatrol(t) /\ Cardinality(ticks) < MaxInFlight
          => ENABLED (TimerFireAsync(t, MaxInFlight) /\ lastOp'.result = "suspended"))
  /\ [][lastOp'.op = "fire" /\ lastOp'.result = "skipped"
          => \E t \in TimersOf(liveTimers, lastOp'.name) :
               schedBot = Null \/ ~heap[t.state].enabled]_vars
  /\ [][lastOp'.op = "fire" /\ lastOp'.result = "suspended"
          => /\ ticks \subseteq ticks'
             /\ Cardinality(ticks') = Cardinality(ticks) + 1
             /\ \A k \in ticks' \ ticks : k.name = lastOp'.name]_vars

\* a second patrol tick has begun while the first is still walking
C29_Witness ==
  /\ lastOp.op = "fire"
  /\ lastOp.name = "patrol"
  /\ lastOp.result = "suspended"
  /\ Cardinality({k \in TicksOf("patrol") : k.pc = "navigating"}) = 2

\* an auto_eat tick and a patrol tick are in flight at once
C29_WitnessTwoBehaviors ==
  /\ TicksOf("auto_eat") # {}
  /\ TicksOf("patrol") # {}

\* the eat attempts in progress: auto_eat ticks between the equip and the
\* end of the wait
EatAttempts == {k \in TicksOf("auto_eat") : k.pc \in {"equipping", "consuming"}}

\* C30 (one eat attempt): in every reachable state at most one eat attempt
\* is in progress, and isEating is set while one is; an auto_eat firing
\* made during an attempt returns at once: no tick begins, and the attempt
\* in progress, the guard and the config stay as they are. Stopping and
\* starting auto_eat leaves both the attempt and the guard alone.
C30_OneEatAttempt ==
  /\ [](Cardinality(EatAttempts) <= 1)
  /\ [](EatAttempts # {} => isEating)
  /\ [][lastOp'.op = "fire" /\ lastOp'.name = "auto_eat" /\ EatAttempts # {}
          => /\ lastOp'.result \in {"returned", "skipped"}
             /\ UNCHANGED << ticks, isEating, heap >>]_vars
  /\ [][lastOp'.op \in {"start", "stop"} => UNCHANGED << ticks, isEating >>]_vars

\* auto_eat fired and returned while an earlier tick was consuming
C30_Witness ==
  /\ lastOp.op = "fire"
  /\ lastOp.name = "auto_eat"
  /\ lastOp.result = "returned"
  /\ \E k \in EatAttempts : k.pc = "consuming"
  /\ isEating

\* ------------------------------------------------------------------------
\* Bounded suspensions (checked under SpecWaits)
\* ------------------------------------------------------------------------

\* C31 (bounded waits): whatever events come or fail to come, every eat
\* wait and every navigation wait of a tick (auto_collect, patrol) comes
\* to its end and every waitForGoal of an action settles; a step ends at
\* most one wait of the ticks, by a resumption of its behavior, and a
\* waitForGoal ends by one of its three wake conditions. (The attack loop
\* is bounded by C27.)
C31_WaitsAreBounded ==
  /\ \A k \in TimedWaits : (k \in ticks) ~> (k \notin ticks)
  /\ (call # NoCall /\ call.pc = "waitForGoal") ~> (call = NoCall)
  /\ [][ticks \ ticks' # {}
          => /\ Cardinality(ticks \ ticks') = 1
             /\ lastOp'.op = "resume"
             /\ \A k \in ticks \ ticks' : lastOp'.name = k.name]_vars
  /\ [][call # NoCall /\ call.pc = "waitForGoal" /\ call' # call
          => /\ lastOp'.op = "facade"
             /\ lastOp'.ov.event \in {"goal_reached", "path_stop", "timeout"}]_vars

\* a patrol wait that its timer or an event has ended while an action was
\* still waiting for its own goal
C31_Witness ==
  /\ lastOp.op = "resume"
  /\ lastOp.name = "patrol"
  /\ lastOp.result = "returned"
  /\ ticks = {}
  /\ call # NoCall
  /\ call.pc = "waitForGoal"

\* ------------------------------------------------------------------------
\* Patrol (checked under SpecPatrol)
\* ------------------------------------------------------------------------

\* the run-state records a patrol timer reads
PatrolConfigs == {heap[t.state] : t \in TimersOf(liveTimers, "patrol")}

\* C32 (patrol index): for every run-state a patrol timer can read, with
\* waypoints and an index that is not negative the tick selects a waypoint
\* of the list, the one at index modulo length; near it, the tick returns
\* with currentIndex = (index + 1) modulo length and nothing else changed;
\* away from it, the tick leaves the record as it is and goes to wait for
\* the goal; with no waypoints the tick returns the record untouched. A
\* firing that returns sets no goal and begins no wait; one that suspends
\* leaves the record alone and sets the goal of a patrol tick.
C32_PatrolIndex ==
  /\ [](\A c \in PatrolConfigs, near \in BOOLEAN :
          LET r == patrolTick(c, near)
              n == Len(c.waypoints)
          IN IF n = 0
               THEN r.pc = "returned" /\ r.config = c /\ r.wp = 0
               ELSE c.currentIndex >= 0 =>
                    /\ r.wp \in 1..n
                    /\ r.wp - 1 = c.currentIndex % n
                    /\ IF near
                         THEN /\ r.pc = "returned"
                              /\ r.config.currentIndex = (c.currentIndex + 1) % n
                              /\ r.config.currentIndex \in 0..(n - 1)
                              /\ (r.wp = n => r.config.currentIndex = 0)
                              /\ [r.config EXCEPT !.currentIndex = c.currentIndex] = c
                         ELSE r.pc = "navigating" /\ r.config = c)
  /\ [][\A t \in TimersOf(liveTimers, "patrol") :
          lastOp'.op = "fire" /\ lastOp'.name = "patrol"
          => \/ /\ lastOp'.result = "skipped"
                /\ UNCHANGED << heap, ticks, goal >>
             \/ /\ lastOp'.result = "returned"
                /\ UNCHANGED << ticks, goal >>
                /\ IF Len(heap[t.state].waypoints) = 0
                     THEN heap' = heap
                     ELSE heap'[t.state].currentIndex =
                            (heap[t.state].currentIndex + 1) % Len(heap[t.state].waypoints)
             \/ /\ lastOp'.result = "suspended"
                /\ heap' = heap
                /\ Len(heap[t.state].waypoints) > 0
                /\ goal' = TickGoal("patrol")
                /\ Cardinality(ticks') = Cardinality(ticks) + 1]_vars

\* a tick near the last waypoint has wrapped the index to the first
C32_Witness ==
  /\ lastOp.op = "fire"
  /\ lastOp.name = "patrol"
  /\ lastOp.result = "returned"
  /\ \E c \in PatrolConfigs :
       /\ Len(c.waypoints) = 2
       /\ c.currentIndex = 0
  /\ ticks = {}

\* ------------------------------------------------------------------------
\* Chat commands (checked under SpecChat)
\* ------------------------------------------------------------------------

\* the words that name the owner-only command
OwnerOnlyWords == {"disconnect", "quit", "dc"}

\* C33 (owner-only command): a message of a player that names the
\* owner-only command runs it only when the player is the configured
\* owner; from any other player it is answered "Permission denied." and
\* arms no exit timer, whatever the owner setting is.
C33_OwnerOnly ==
  [][(/\ lastOp'.op = "chat"
      /\ lastOp'.name \in OwnerOnlyWords
      /\ lastOp'.ov.prefixed
      /\ lastOp'.ov.sender # BotUsername)
       => IF lastOp'.ov.sender = lastOp'.ov.owner
            THEN lastOp'.ov.run = "disconnect"
            ELSE /\ lastOp'.result = "Permission denied."
                 /\ lastOp'.ov.run = ""
                 /\ exitTimer' = exitTimer]_vars

\* ------------------------------------------------------------------------
\* Stale session events (checked under SpecSession)
\* ------------------------------------------------------------------------

\* session b is not the current one: it was disconnected explicitly, or a
\* later connect has created a session since
Stale(b) ==
  /\ b # bot
  /\ \/ sessions[b].phase = "quit"
     \/ \E later \in Bots : later > b /\ sessions[later].phase # "none"

\* C34 (stale end events): the end event of a session that is no longer
\* the current one changes neither the status, nor the session reference,
\* nor any scheduler state.
C34_StaleEndIgnored ==
  [][\A b \in Bots :
       (/\ lastOp'.op = "end"
        /\ sessions[b].phase # "ended"
        /\ sessions'[b].phase = "ended"
        /\ Stale(b))
       => UNCHANGED << bot, currentStatus, schedVars >>]_vars

\* C35 (one session reference): in every reachable state the scheduler's
\* _bot and the session handle's bot are the same, both absent or both the
\* same session; a firing that runs its tick runs it with the session the
\* handle holds.
C35_SameSession ==
  /\ [](schedBot = bot)
  /\ [][lastOp'.op = "fire" /\ lastOp'.result # "skipped"
          => schedBot # Null /\ schedBot = bot]_vars

\* a tick has run on the second of two sessions that were connecting at
\* once
C35_Witness ==
  /\ lastOp.op = "fire"
  /\ lastOp.result = "returned"
  /\ bot = 2
  /\ schedBot = 2
  /\ sessions[1].phase = "spawned"

\* C36 (session and status): in every reachable state a session is held
\* exactly when the status is connected; getBotOrThrow gives the session
\* exactly then, and fails while the status is connecting or disconnected.
C36_HeldIffConnected ==
  /\ [](bot # Null <=> currentStatus = "connected")
  /\ [](getBotOrThrow.ok <=> currentStatus = "connected")
  /\ [](currentStatus \in {"connecting", "disconnected"}
          => getBotOrThrow = [ok |-> FALSE, error |-> NotConnectedError])

\* an error on the spawned session: the status stays connected and the
\* session is still held
C36_Witness ==
  /\ lastOp.op = "error"
  /\ bot # Null
  /\ sessions[bot].phase = "spawned"
  /\ currentStatus = "connected"
  /\ getBotOrThrow.ok

\* ------------------------------------------------------------------------
\* The attack loop after its outcome (checked under SpecAttack)
\* ------------------------------------------------------------------------

\* C37 (nothing after the outcome): a timer of an attack loop that has
\* returned its outcome leaves the pathfinder's goal as it is, so that the
\* goal an action set in the meantime stays in force.
C37_NoCommandAfterOutcome ==
  [][lastOp'.ov = [event |-> "stale timeout"] => goal' = goal]_vars

\* ------------------------------------------------------------------------
\* The auto_eat guard (checked under SpecEat)
\* ------------------------------------------------------------------------

\* C38 (guard released): whenever no auto_eat tick is in flight isEating
\* is clear; stop, start, connect, disconnect and the session events leave
\* the flag as it is; and with no tick in flight a firing of a hungry bot
\* that has food begins an eat attempt.
C38_GuardReleased ==
  /\ [](TicksOf("auto_eat") = {} => ~isEating)
  /\ [][lastOp'.op \notin {"fire", "resume"} => isEating' = isEating]_vars
  /\ [](\A t \in TimersOf(liveTimers, "auto_eat") :
          TicksOf("auto_eat") = {}
          => autoEatTick(heap[t.state], isEating, 6, TRUE).pc = "equipping")

\* an eat attempt has begun on the second session, after the first was
\* given up
C38_Witness ==
  /\ lastOp.op = "fire"
  /\ lastOp.name = "auto_eat"
  /\ lastOp.result = "suspended"
  /\ bot = 2
  /\ sessions[1].phase \in {"quit", "ended"}
  /\ isEating

\* ------------------------------------------------------------------------
\* Whose event completes a navigation wait (checked under SpecWaits)
\* ------------------------------------------------------------------------

\* C39 (own goal only): a goal-reached or path-stopped event completes the
\* pending wait of an action only while the goal the pathfinder has is the
\* one that action set (or none, after a stop), never while it is the
\* goal of a behavior's tick.
C39_OwnGoalOnly ==
  [][(/\ call # NoCall
      /\ lastOp'.ov \in {[event |-> "goal_reached"], [event |-> "path_stop"]})
     => goal \in {CallGoal, NoGoal}]_vars

\* ------------------------------------------------------------------------
\* One run-state record per running behavior (checked under SpecPatrol)
\* ------------------------------------------------------------------------

\* C40 (one record): the record the timer of a running behavior hands to
\* its ticks is the record behaviorStates has under the behavior's name,
\* the one listBehaviors() reports and a start with overrides patches: a
\* patch made while the behavior runs is in the record of its timer, and
\* the config listBehaviors() reports after a tick of patrol is the config
\* that tick left.
C40_OneRecord ==
  /\ [](\A t \in liveTimers :
          /\ activeTimers[t.name] = t.id
          /\ behaviorStates[t.name] = t.state
          /\ listBehaviors(Sched)[FindDef(t.name)].config = heap[t.state])
  /\ [][lastOp'.op = "start" /\ lastOp'.result = "config updated."
        => \A t \in liveTimers' :
             t.name = lastOp'.name
             => \A f \in DOMAIN lastOp'.ov : heap'[t.state][f] = lastOp'.ov[f]]_vars
  /\ [][lastOp'.op = "fire" /\ lastOp'.name = "patrol" /\ lastOp'.result # "skipped"
        => \E t \in liveTimers, near \in BOOLEAN :
             /\ t.name = "patrol"
             /\ listBehaviors(Sched')[FindDef("patrol")].config
                  = patrolTick(heap[t.state], near).config]_vars

\* patrol was stopped and started again, and a tick of the second timer
\* moved the index on: listBehaviors() shows the index it wrote
C40_Witness ==
  /\ lastOp.op = "fire"
  /\ lastOp.name = "patrol"
  /\ lastOp.result = "returned"
  /\ \E t \in liveTimers :
       /\ t.name = "patrol"
       /\ t.id = 2
       /\ heap[1].enabled = FALSE
       /\ heap[1].currentIndex = 0
       /\ listBehaviors(Sched)[FindDef("patrol")].config.currentIndex = 1

====
